---- MODULE Spec2Model ----
(***************************************************************************)
(* Portfolio tracker (stocks app): the transaction ledger, the positions   *)
(* derived from it, the chart/alignment computations over the stored       *)
(* prices and the sector allocation.                                       *)
(*                                                                         *)
(* Decimal amounts are modelled as integers (whole shares, whole dollars). *)
(* Quotients (avg_cost, percentages) are exact rationals [num, den]; the   *)
(* rounding of Decimal and float arithmetic is not modelled.               *)
(* An optional value (Python None) is the empty sequence, a present value  *)
(* v is <<v>>.                                                             *)
(***************************************************************************)
EXTENDS Integers, Sequences, FiniteSets, TLC

\* ---- bounds of the model ----
MaxLedger == 2       \* rows in the Portfolio table
MaxQty == 2          \* largest quantity a form submits
MaxPrice == 2        \* largest price a form submits
MaxDay == 2          \* days that pass: dates are the day numbers 1..MaxDay
MaxAttempts == 5     \* rows in the LoginAttempt table before a login request
MaxClock == 64       \* minutes that pass on the login path

Users == {"alice", "bob"}
DefaultPortfolio == "My Investment Portfolio"
PortfolioNames == {DefaultPortfolio, "Growth"}
Symbols == {"AAPL", "XOM"}
ClosePrices == {1, 2}   \* the close prices a provider reports

None == <<>>
Some(v) == <<v>>

VARIABLES
    ledger,     \* Portfolio table: rows in insertion (id, created_at) order
    session,    \* per user: request.session, current_portfolio key present or not
    prices,     \* StockPrice table: symbol -> date -> close_price, if there is a row
    today,      \* timezone.now().date(), as a day number
    response,   \* what the latest request or service call returned
    attempts,   \* LoginAttempt table: rows in insertion order
    clock,      \* timezone.now(), in minutes
    authenticated,  \* the users whose browser session carries a login
    backends    \* settings.AUTHENTICATION_BACKENDS

\* the state of the login path
authvars == <<attempts, clock, authenticated, backends>>

vars == <<ledger, session, prices, today, response, authvars>>

\* ---- exact rationals ----
Abs(x) == IF x < 0 THEN -x ELSE x

RECURSIVE Gcd(_, _)
Gcd(a, b) == IF b = 0 THEN a ELSE Gcd(b, a % b)

\* n / d, d # 0, in lowest terms with a positive denominator
Rat(n, d) ==
    LET g == Gcd(Abs(n), Abs(d))
        s == IF d < 0 THEN -1 ELSE 1
    IN [num |-> (s * n) \div g, den |-> (s * d) \div g]

RatInt(n) == [num |-> n, den |-> 1]
RatAdd(a, b) == Rat(a.num * b.den + b.num * a.den, a.den * b.den)
RatMul(a, b) == Rat(a.num * b.num, a.den * b.den)
\* defined for b.num # 0 only; the callers decide what a zero divisor does
RatDiv(a, b) == Rat(a.num * b.den, a.den * b.num)
RatLess(a, b) == a.num * b.den < b.num * a.den

\* ---- the Portfolio table and the queries on it (stocks/models.py, services.py) ----

\* Portfolio.objects.filter(...): the matching rows, as the set of their indices
PortfolioRows(table, portfolio_name) ==
    {i \in DOMAIN table : table[i].portfolio_name = portfolio_name}

TransactionRows(table, portfolio_name, symbol, transaction_type) ==
    {i \in PortfolioRows(table, portfolio_name) :
        /\ table[i].symbol = symbol
        /\ table[i].transaction_type = transaction_type}

RECURSIVE SumQuantity(_, _)
SumQuantity(table, I) ==
    IF I = {} THEN 0
    ELSE LET i == CHOOSE j \in I : TRUE
         IN table[i].quantity + SumQuantity(table, I \ {i})

RECURSIVE SumValue(_, _)
SumValue(table, I) ==
    IF I = {} THEN 0
    ELSE LET i == CHOOSE j \in I : TRUE
         IN table[i].quantity * table[i].price_per_share + SumValue(table, I \ {i})

\* .aggregate(total_quantity=Sum(..), total_value=Sum(..)): Sum over no rows is None
Aggregate(table, I) ==
    [total_quantity |-> IF I = {} THEN None ELSE Some(SumQuantity(table, I)),
     total_value |-> IF I = {} THEN None ELSE Some(SumValue(table, I))]

\* (x or Decimal('0'))
OrZero(opt) == IF opt = None THEN 0 ELSE opt[1]

\* Meta.ordering of Portfolio: -transaction_date, then -created_at (insertion order)
Newer(table, i, j) ==
    \/ table[i].transaction_date > table[j].transaction_date
    \/ table[i].transaction_date = table[j].transaction_date /\ i >= j

RECURSIVE OrderedRows(_, _)
OrderedRows(table, I) ==
    IF I = {} THEN <<>>
    ELSE LET first == CHOOSE i \in I : \A j \in I : Newer(table, i, j)
         IN <<first>> \o OrderedRows(table, I \ {first})

\* .values('stock__symbol', ...).distinct(): each symbol once, in query order
RECURSIVE DistinctSymbols(_, _, _)
DistinctSymbols(table, rows, seen) ==
    IF rows = <<>> THEN <<>>
    ELSE LET symbol == table[Head(rows)].symbol
         IN IF symbol \in seen
            THEN DistinctSymbols(table, Tail(rows), seen)
            ELSE <<symbol>> \o DistinctSymbols(table, Tail(rows), seen \cup {symbol})

NetQuantityAdded(bought, sold) ==
    OrZero(bought.total_quantity) + OrZero(sold.total_quantity)

NetQuantity(bought, sold) == OrZero(bought.total_quantity) - OrZero(sold.total_quantity)

NetValue(bought, sold) == OrZero(bought.total_value) - OrZero(sold.total_value)

StillHeldOrFlat(net_quantity) == net_quantity >= 0

\* "if net_quantity > 0:  # Only include positions we still hold"
StillHeld(net_quantity) == net_quantity > 0

\* the body of the loop of get_stock_positions for one symbol: the position
\* appended for it, if any
PositionEntry(table, portfolio_name, symbol) ==
    LET bought == Aggregate(table, TransactionRows(table, portfolio_name, symbol, "BUY"))
        sold == Aggregate(table, TransactionRows(table, portfolio_name, symbol, "SELL"))
        net_quantity == NetQuantity(bought, sold)
        net_value == NetValue(bought, sold)
    IN IF StillHeld(net_quantity)
       THEN <<[symbol |-> symbol,
               quantity |-> net_quantity,
               avg_cost |-> IF net_quantity > 0 THEN Rat(net_value, net_quantity)
                            ELSE RatInt(0),
               total_cost |-> net_value]>>
       ELSE <<>>

RECURSIVE PositionsLoop(_, _, _)
PositionsLoop(table, portfolio_name, stocks) ==
    IF stocks = <<>> THEN <<>>
    ELSE PositionEntry(table, portfolio_name, Head(stocks))
         \o PositionsLoop(table, portfolio_name, Tail(stocks))

\* PortfolioAnalytics.get_stock_positions(portfolio_name): no parameter and no
\* filter names the user
get_stock_positions(table, portfolio_name) ==
    LET stocks == DistinctSymbols(table,
                      OrderedRows(table, PortfolioRows(table, portfolio_name)), {})
    IN PositionsLoop(table, portfolio_name, stocks)

\* PortfolioAnalytics.get_portfolio_summary(portfolio_name)
get_portfolio_summary(table, portfolio_name) ==
    LET rows == PortfolioRows(table, portfolio_name)
        buys == {i \in rows : table[i].transaction_type = "BUY"}
        sells == {i \in rows : table[i].transaction_type = "SELL"}
        total_invested == OrZero(Aggregate(table, buys).total_value)
        total_received == OrZero(Aggregate(table, sells).total_value)
    IN [total_invested |-> total_invested,
        total_received |-> total_received,
        net_invested |-> total_invested - total_received,
        companies_count |-> Len(get_stock_positions(table, portfolio_name)),
        total_transactions |-> Cardinality(rows)]

\* ---- the session and the ingestion path (views.py, forms.py) ----

\* request.session.get('current_portfolio', 'My Investment Portfolio')
CurrentPortfolio(u) == IF session[u] = None THEN DefaultPortfolio ELSE session[u][1]

\* what a browser may submit in the transaction form
FormSymbols == {"aapl", "XOM"}
FormTypes == {"BUY", "SELL"}
FormQuantities == 0..MaxQty

\* clean_symbol: self.cleaned_data['symbol'].upper().strip()
clean_symbol(symbol) == IF symbol = "aapl" THEN "AAPL" ELSE symbol

\* quantity: the model field's MinValueValidator(0.0001) and clean_quantity
quantity_valid(quantity) == quantity > 0

\* clean_price_per_share: a blank price (None) passes, a given one must be >= 0.01
price_valid(price) == price = None \/ price[1] > 0

form_is_valid(symbol, transaction_type, quantity, price) ==
    /\ clean_symbol(symbol) \in Symbols
    /\ transaction_type \in {"BUY", "SELL"}
    /\ quantity_valid(quantity)
    /\ price_valid(price)

\* AddTransactionForm.save: "Use provided price or default to 0.00"
saved_price(price) == IF price # None /\ price[1] > 0 THEN price[1] ELSE 0

\* add_transaction view: validate the form and save the row for request.user
\* under current_portfolio, the name the view reads from the session
AddTransaction(u, current_portfolio, symbol, transaction_type, quantity, price) ==
    /\ Len(ledger) < MaxLedger
    /\ IF form_is_valid(symbol, transaction_type, quantity, price)
       THEN /\ ledger' = Append(ledger,
                  [user |-> u,
                   portfolio_name |-> current_portfolio,
                   symbol |-> clean_symbol(symbol),
                   transaction_type |-> transaction_type,
                   quantity |-> quantity,
                   price_per_share |-> saved_price(price),
                   transaction_date |-> today])
            /\ response' = [op |-> "add_transaction", saved |-> TRUE]
       ELSE /\ ledger' = ledger
            /\ response' = [op |-> "add_transaction", saved |-> FALSE]
    /\ UNCHANGED <<session, prices, today, authvars>>

\* a view asks for the positions of a portfolio
\* (views.py line 29: get_stock_positions(current_portfolio, request.user))
GetStockPositions(u, portfolio_name) ==
    /\ response' = [op |-> "get_stock_positions", user |-> u,
                    portfolio_name |-> portfolio_name,
                    positions |-> get_stock_positions(ledger, portfolio_name)]
    /\ UNCHANGED <<ledger, session, prices, today, authvars>>

\* (views.py line 26: get_portfolio_summary(current_portfolio, request.user))
GetPortfolioSummary(u, portfolio_name) ==
    /\ response' = [op |-> "get_portfolio_summary", user |-> u,
                    portfolio_name |-> portfolio_name,
                    summary |-> get_portfolio_summary(ledger, portfolio_name)]
    /\ UNCHANGED <<ledger, session, prices, today, authvars>>

Days == 1..MaxDay

\* every user has signed in (the portfolio views are @login_required); the login
\* path is at rest
SignedIn ==
    /\ attempts = <<>>
    /\ clock = 0
    /\ authenticated = Users
    /\ backends = <<"ModelBackend">>

NoPrices == [s \in Symbols |-> [d \in Days |-> None]]

Init ==
    /\ ledger = <<>>
    /\ session = [u \in Users |-> None]
    /\ SignedIn
    /\ prices = NoPrices
    /\ today = 1
    /\ response = [op |-> "none"]

Next ==
    \/ \E u \in Users, current_portfolio \in PortfolioNames, symbol \in FormSymbols,
          transaction_type \in FormTypes, quantity \in FormQuantities,
          price \in {None} \cup {Some(p) : p \in 0..MaxPrice} :
          AddTransaction(u, current_portfolio, symbol, transaction_type, quantity, price)
    \/ \E u \in Users, portfolio_name \in PortfolioNames :
          GetStockPositions(u, portfolio_name)
    \/ \E u \in Users, portfolio_name \in PortfolioNames :
          GetPortfolioSummary(u, portfolio_name)

Spec == Init /\ [][Next]_vars

\* the ledger of one user and the positions computed from it; the price is left
\* blank or given
NextPositions ==
    \/ \E current_portfolio \in PortfolioNames, symbol \in FormSymbols,
          transaction_type \in FormTypes, quantity \in FormQuantities,
          price \in {None, Some(MaxPrice)} :
          AddTransaction("alice", current_portfolio, symbol, transaction_type,
                         quantity, price)
    \/ \E portfolio_name \in PortfolioNames : GetStockPositions("alice", portfolio_name)

SpecPositions == Init /\ [][NextPositions]_vars

\* ---- the StockPrice table and the historical price chart (views.py) ----

\* StockPrice.objects.filter(stock__symbol=symbol, date__gte=start_date,
\* date__lte=end_date).order_by('date'): the rows, oldest first
RECURSIVE PriceRows(_, _, _, _)
PriceRows(store, symbol, start_date, end_date) ==
    IF start_date > end_date THEN <<>>
    ELSE (IF start_date \in Days /\ store[symbol][start_date] # None
          THEN <<[date |-> start_date, close_price |-> store[symbol][start_date][1]]>>
          ELSE <<>>)
         \o PriceRows(store, symbol, start_date + 1, end_date)

DatesOf(rows) == [j \in DOMAIN rows |-> rows[j].date]

SeqToSet(seq) == {seq[j] : j \in DOMAIN seq}

\* sorted(all_dates)
RECURSIVE Sorted(_)
Sorted(dates) ==
    IF dates = {} THEN <<>>
    ELSE LET least == CHOOSE d \in dates : \A e \in dates : d <= e
         IN <<least>> \o Sorted(dates \ {least})

EarlierOnly(stock_date, date) == stock_date < date

\* "if stock_date <= date: ... else: break"
NotLater(stock_date, date) == stock_date <= date

\* the inner loop of the alignment: the value of the last stock date that is not
\* later than date, None if the first stock date is later already
RECURSIVE LastKnown(_, _, _, _)
LastKnown(stock_dates, values, date, found) ==
    IF stock_dates = <<>> THEN found
    ELSE IF NotLater(Head(stock_dates), date)
         THEN LastKnown(Tail(stock_dates), Tail(values), date, Some(Head(values)))
         ELSE found

\* aligned_data of one dataset: one entry per date of sorted_dates
AlignedData(stock_dates, values, sorted_dates) ==
    [k \in DOMAIN sorted_dates |-> LastKnown(stock_dates, values, sorted_dates[k], None)]

\* the first loop of _calculate_historical_stock_prices: a dataset for every
\* position that has price rows in the range
RECURSIVE HistoricalDatasets(_, _, _, _)
HistoricalDatasets(store, positions, start_date, end_date) ==
    IF positions = <<>> THEN <<>>
    ELSE LET symbol == Head(positions).symbol
             rows == PriceRows(store, symbol, start_date, end_date)
         IN (IF rows # <<>>
             THEN <<[label |-> symbol, dates |-> DatesOf(rows),
                     data |-> [j \in DOMAIN rows |-> rows[j].close_price]]>>
             ELSE <<>>)
            \o HistoricalDatasets(store, Tail(positions), start_date, end_date)

\* the labels of the sample charts for a period
SampleLabels(period) ==
    CASE period = "1D" -> <<"9:30", "10:00", "11:00", "12:00", "1:00", "2:00", "3:00",
                            "4:00">>
      [] period = "1W" -> <<"Mon", "Tue", "Wed", "Thu", "Fri">>
      [] period = "1M" -> <<"Week 1", "Week 2", "Week 3", "Week 4">>
      [] period = "6M" -> <<"Jan", "Feb", "Mar", "Apr", "May", "Jun">>
      [] period = "1Y" -> <<"Jan", "Mar", "May", "Jul", "Sep", "Nov">>
      [] OTHER -> <<"Start", "End">>

\* what the random module may draw in one request: random.uniform(100, 300) for the
\* base price and random.uniform(-0.05, 0.05) for the changes (in percent), at the
\* ends of their intervals
RandomDraws ==
    {[base_price |-> 100, change |-> -5], [base_price |-> 300, change |-> 5]}

\* stock_prices: the base price, then each price the one before times (1 + change)
RECURSIVE SampleWalk(_, _, _)
SampleWalk(price, change, steps) ==
    IF steps = 0 THEN <<>>
    ELSE <<price>> \o SampleWalk(RatMul(price, Rat(100 + change, 100)), change, steps - 1)

\* _get_sample_chart_data(period, 'historical'): labels of the period and generated
\* prices for three sample stocks
get_sample_chart_data(period, random) ==
    [sample |-> TRUE,
     dates |-> SampleLabels(period),
     datasets |-> [i \in 1..3 |->
                     [label |-> <<"AAPL", "GOOGL", "MSFT">>[i],
                      data |-> SampleWalk(RatInt(random.base_price), random.change,
                                          Len(SampleLabels(period)))]]]

\* _calculate_historical_stock_prices(positions, start_date, end_date, period)
calculate_historical_stock_prices(store, positions, start_date, end_date, period, random) ==
    LET datasets == HistoricalDatasets(store, positions, start_date, end_date)
        all_dates == UNION {SeqToSet(datasets[i].dates) : i \in DOMAIN datasets}
        sorted_dates == Sorted(all_dates)
    IN IF all_dates = {} \/ datasets = <<>>
       THEN get_sample_chart_data(period, random)
       ELSE [sample |-> FALSE,
             dates |-> sorted_dates,
             datasets |-> [i \in DOMAIN datasets |->
                             [label |-> datasets[i].label,
                              data |-> AlignedData(datasets[i].dates, datasets[i].data,
                                                   sorted_dates)]]]

\* chart_data view, chart_type 'historical', for the portfolio's positions
CalculateHistoricalStockPrices(portfolio_name, start_date, end_date, period, random) ==
    /\ response' = [op |-> "historical_stock_prices",
                    portfolio_name |-> portfolio_name,
                    start_date |-> start_date, end_date |-> end_date,
                    period |-> period,
                    chart |-> calculate_historical_stock_prices(prices,
                                 get_stock_positions(ledger, portfolio_name),
                                 start_date, end_date, period, random)]
    /\ UNCHANGED <<ledger, session, prices, today, authvars>>

\* a BUY row as AddTransaction stores it
BuyRow(u, portfolio_name, symbol, quantity, price, date) ==
    [user |-> u, portfolio_name |-> portfolio_name, symbol |-> symbol,
     transaction_type |-> "BUY", quantity |-> quantity, price_per_share |-> price,
     transaction_date |-> date]

SellRow(u, portfolio_name, symbol, quantity, price, date) ==
    [user |-> u, portfolio_name |-> portfolio_name, symbol |-> symbol,
     transaction_type |-> "SELL", quantity |-> quantity, price_per_share |-> price,
     transaction_date |-> date]

\* the StockPrice tables: any row set with one row per (stock, date)
PriceStores ==
    [Symbols -> [Days -> {None} \cup {Some(p) : p \in ClosePrices}]]

\* the historical chart over every price table, for the ledgers in which alice
\* holds one or both symbols, bought on day 1
InitAlign ==
    /\ ledger \in {<<BuyRow("alice", DefaultPortfolio, "AAPL", 1, 1, 1)>>,
                   <<BuyRow("alice", DefaultPortfolio, "AAPL", 1, 1, 1),
                     BuyRow("alice", DefaultPortfolio, "XOM", 1, 1, 1)>>}
    /\ session = [u \in Users |-> None]
    /\ SignedIn
    /\ prices \in PriceStores
    /\ today = MaxDay
    /\ response = [op |-> "none"]

NextAlign ==
    \E start_date \in Days, end_date \in Days, period \in {"1W", "1M"},
       random \in RandomDraws :
        /\ start_date <= end_date
        /\ CalculateHistoricalStockPrices(DefaultPortfolio, start_date, end_date,
                                          period, random)

SpecAlign == InitAlign /\ [][NextAlign]_vars

\* ---- performance since inception (views.py, yahoo_finance.py) ----

RefetchBelow == 5    \* "if prices.count() < 5"

\* .aggregate(first_date=Min('transaction_date')) over the symbol's BUY rows of
\* the portfolio
FirstPurchase(table, portfolio_name, symbol) ==
    LET buys == TransactionRows(table, portfolio_name, symbol, "BUY")
    IN IF buys = {} THEN None
       ELSE Some(table[CHOOSE i \in buys :
                         \A j \in buys : table[i].transaction_date
                                           <= table[j].transaction_date].transaction_date)

\* what Yahoo Finance may return for a symbol: nothing (no data, or an error), or
\* a daily history
YahooHistories ==
    {[d \in Days |-> None]} \cup {[d \in Days |-> Some(p)] : p \in ClosePrices}

\* YahooFinanceService.update_stock_prices_for_period(symbol, days_back): a row is
\* created for each returned date of the period that has none yet
update_stock_prices_for_period(store, symbol, days_back, now, historical_data) ==
    LET end_date == now
        start_date == end_date - days_back
    IN [store EXCEPT ![symbol] =
           [d \in Days |->
               IF /\ historical_data[d] # None
                  /\ start_date <= d /\ d <= end_date
                  /\ store[symbol][d] = None
               THEN historical_data[d]
               ELSE store[symbol][d]]]

\* ((price.close_price - avg_cost) / avg_cost) * 100, for avg_cost # 0
PerformancePct(close_price, avg_cost) ==
    RatMul(RatDiv(RatAdd(RatInt(close_price), RatMul(RatInt(-1), avg_cost)), avg_cost),
           RatInt(100))

\* the first loop of _calculate_performance_since_inception, position by position:
\* the price table it leaves, the stock_data it collects, and whether the division
\* by avg_cost raised (a Decimal division by zero raises)
RECURSIVE InceptionLoop(_, _, _, _, _, _, _)
InceptionLoop(table, portfolio_name, store, now, positions, yahoo, stock_data) ==
    IF positions = <<>>
    THEN [raised |-> FALSE, store |-> store, stock_data |-> stock_data]
    ELSE LET position == Head(positions)
             symbol == position.symbol
             first_purchase == FirstPurchase(table, portfolio_name, symbol)
         IN IF first_purchase = None
            THEN InceptionLoop(table, portfolio_name, store, now, Tail(positions),
                               yahoo, stock_data)
            ELSE LET found == PriceRows(store, symbol, first_purchase[1], MaxDay)
                     days_back == (now - first_purchase[1]) + 1
                     fetched == IF Len(found) < RefetchBelow
                                THEN update_stock_prices_for_period(
                                         store, symbol, days_back, now, yahoo[symbol])
                                ELSE store
                     rows == PriceRows(fetched, symbol, first_purchase[1], MaxDay)
                 IN IF rows = <<>>
                    THEN InceptionLoop(table, portfolio_name, fetched, now,
                                       Tail(positions), yahoo, stock_data)
                    ELSE IF position.avg_cost.num = 0
                    THEN [raised |-> TRUE, store |-> fetched, stock_data |-> stock_data]
                    ELSE InceptionLoop(table, portfolio_name, fetched, now,
                             Tail(positions), yahoo,
                             Append(stock_data,
                                 [symbol |-> symbol,
                                  dates |-> DatesOf(rows),
                                  performance |->
                                     [j \in DOMAIN rows |->
                                         PerformancePct(rows[j].close_price,
                                                        position.avg_cost)],
                                  weight |-> position.total_cost]))

EntryLeftOut == None

\* "otherwise use 0 (no data yet)": aligned_performance.append(0)
NoDataYet == Some(RatInt(0))

\* aligned_performance of one stock
AlignedPerformance(data, sorted_dates) ==
    [k \in DOMAIN sorted_dates |->
        LET date_performance == LastKnown(data.dates, data.performance,
                                          sorted_dates[k], None)
        IN IF date_performance # None THEN date_performance ELSE NoDataYet]

\* the sums of the portfolio average over the stocks that have data at a date
RECURSIVE WeightedSums(_, _, _, _)
WeightedSums(stock_data, date, weighted_performance, available_weight) ==
    IF stock_data = <<>>
    THEN [weighted_performance |-> weighted_performance,
          available_weight |-> available_weight]
    ELSE LET data == Head(stock_data)
             date_performance == LastKnown(data.dates, data.performance, date, None)
         IN IF date_performance # None
            THEN WeightedSums(Tail(stock_data), date,
                     RatAdd(weighted_performance,
                            RatMul(date_performance[1], RatInt(data.weight))),
                     available_weight + data.weight)
            ELSE WeightedSums(Tail(stock_data), date, weighted_performance,
                              available_weight)

\* "if available_weight > 0: ... else: portfolio_performance.append(0)"
PortfolioAverageAt(stock_data, date) ==
    LET sums == WeightedSums(stock_data, date, RatInt(0), 0)
    IN IF sums.available_weight > 0
       THEN RatDiv(sums.weighted_performance, RatInt(sums.available_weight))
       ELSE RatInt(0)

\* _get_sample_inception_chart_data(): 26 weekly dates from 180 days ago, and for
\* three sample stocks a performance that starts at 0 and adds a random change
\* per date; the average is their mean
get_sample_inception_chart_data(now, change) ==
    LET performance == [i \in 1..26 |-> Some(RatInt((i - 1) * change))]
    IN [raised |-> FALSE, sample |-> TRUE,
        dates |-> [i \in 1..26 |-> (now - 180) + (i - 1) * 7],
        datasets |-> [j \in 1..3 |->
                        [label |-> <<"AAPL", "GOOGL", "MSFT">>[j], data |-> performance]],
        weights |-> <<>>,
        portfolio_average |->
            [i \in 1..26 |-> RatDiv(RatInt(3 * (i - 1) * change), RatInt(3))]]

\* the chart that is built once the first loop has finished without raising
InceptionChart(stock_data, now, change) ==
    LET all_dates == UNION {SeqToSet(stock_data[i].dates) : i \in DOMAIN stock_data}
        sorted_dates == Sorted(all_dates)
    IN IF all_dates = {}
       THEN get_sample_inception_chart_data(now, change)
       ELSE [raised |-> FALSE, sample |-> FALSE,
             dates |-> sorted_dates,
             datasets |-> [i \in DOMAIN stock_data |->
                             [label |-> stock_data[i].symbol,
                              data |-> AlignedPerformance(stock_data[i], sorted_dates)]],
             weights |-> [i \in DOMAIN stock_data |-> stock_data[i].weight],
             portfolio_average |->
                 [k \in DOMAIN sorted_dates |->
                     PortfolioAverageAt(stock_data, sorted_dates[k])]]

\* the random draws a request makes: they are made for the sample chart only, by
\* random.uniform(-5, 8), taken at the ends of the interval; one draw stands for
\* all the draws of a request
DrawsOf(positions, loop) ==
    IF /\ positions # <<>>
       /\ \/ loop.raised
          \/ \A i \in DOMAIN loop.stock_data : loop.stock_data[i].dates = <<>>
    THEN {-5, 8}
    ELSE {0}

\* performance_since_inception_data view: no positions gives empty datasets; an
\* exception of the calculation gives the sample chart
PerformanceSinceInception(portfolio_name, yahoo) ==
    \E positions \in {get_stock_positions(ledger, portfolio_name)} :
    \E loop \in {InceptionLoop(ledger, portfolio_name, prices, today, positions,
                              yahoo, <<>>)} :
    \E change \in DrawsOf(positions, loop) :
       /\ prices' = IF positions = <<>> THEN prices ELSE loop.store
       /\ response' =
            [op |-> "performance_since_inception",
             portfolio_name |-> portfolio_name,
             chart |-> IF positions = <<>>
                       THEN [raised |-> FALSE, sample |-> FALSE, dates |-> <<>>,
                             datasets |-> <<>>, weights |-> <<>>,
                             portfolio_average |-> <<>>]
                       ELSE IF loop.raised
                       THEN [get_sample_inception_chart_data(today, change)
                                EXCEPT !.raised = TRUE]
                       ELSE InceptionChart(loop.stock_data, today, change)]
       /\ UNCHANGED <<ledger, session, today, authvars>>

\* ---- the holdings table (services.py) and the sector allocation (views.py) ----

\* StockPrice.objects.filter(stock__symbol=symbol).order_by('-date').first()
LatestPrice(store, symbol) ==
    LET dated == {d \in Days : store[symbol][d] # None}
    IN IF dated = {} THEN None
       ELSE Some(store[symbol][CHOOSE d \in dated : \A e \in dated : e <= d][1])

\* sorted(items, key=..., reverse=True) and list.sort(key=..., reverse=True), where
\* larger holds the pairs <<j, i>> of indices with key(items[j]) > key(items[i]):
\* the sort is stable, items with equal keys keep the order they had
StableSortDescending(items, larger) ==
    LET Ahead(i) == {j \in DOMAIN items :
                        \/ <<j, i>> \in larger
                        \/ <<i, j>> \notin larger /\ j < i}
    IN [r \in DOMAIN items |->
           items[CHOOSE i \in DOMAIN items : Cardinality(Ahead(i)) = r - 1]]

\* the first loop of get_detailed_holdings: total_portfolio_value over the
\* positions that have a price
RECURSIVE TotalPortfolioValue(_, _)
TotalPortfolioValue(store, positions) ==
    IF positions = <<>> THEN 0
    ELSE LET position == Head(positions)
             latest_price == LatestPrice(store, position.symbol)
         IN (IF latest_price # None THEN position.quantity * latest_price[1] ELSE 0)
            + TotalPortfolioValue(store, Tail(positions))

\* next((p for p in positions if p['symbol'] == symbol), None)
PositionOf(positions, symbol) ==
    LET at == {i \in DOMAIN positions : positions[i].symbol = symbol}
    IN IF at = {} THEN None
       ELSE Some(positions[CHOOSE i \in at : \A j \in at : i <= j])

\* Portfolio.objects.filter(stock__symbol=symbol, transaction_type='BUY')
\* .order_by('transaction_date').first(): no filter on the portfolio
FirstPurchaseAnywhere(table, symbol) ==
    LET buys == {i \in DOMAIN table : /\ table[i].symbol = symbol
                                      /\ table[i].transaction_type = "BUY"}
    IN IF buys = {} THEN None
       ELSE Some(table[CHOOSE i \in buys :
                         \A j \in buys : table[i].transaction_date
                                           <= table[j].transaction_date].transaction_date)

\* the second loop of get_detailed_holdings, stock by stock: the holdings it
\* appends, and whether the division by avg_cost raised
RECURSIVE HoldingsLoop(_, _, _, _, _, _, _)
HoldingsLoop(table, store, now, positions, stocks, total_portfolio_value, holdings) ==
    IF stocks = <<>> THEN [raised |-> FALSE, holdings |-> holdings]
    ELSE LET symbol == Head(stocks)
             position == PositionOf(positions, symbol)
         IN IF position = None \/ position[1].quantity <= 0
            THEN HoldingsLoop(table, store, now, positions, Tail(stocks),
                              total_portfolio_value, holdings)
            ELSE LET first_purchase == FirstPurchaseAnywhere(table, symbol)
                     latest_price == LatestPrice(store, symbol)
                     avg_cost == position[1].avg_cost
                 IN IF latest_price # None /\ avg_cost.num = 0
                    THEN [raised |-> TRUE, holdings |-> holdings]
                    ELSE HoldingsLoop(table, store, now, positions, Tail(stocks),
                             total_portfolio_value,
                             Append(holdings,
                                 [symbol |-> symbol,
                                  purchase_date |-> first_purchase,
                                  weight_pct |->
                                     IF latest_price # None /\ total_portfolio_value > 0
                                     THEN RatMul(Rat(position[1].quantity * latest_price[1],
                                                     total_portfolio_value),
                                                 RatInt(100))
                                     ELSE RatInt(0),
                                  entry_price |-> avg_cost,
                                  current_value |-> latest_price,
                                  performance_pct |->
                                     IF latest_price # None
                                     THEN Some(PerformancePct(latest_price[1], avg_cost))
                                     ELSE None,
                                  days_owned |->
                                     IF first_purchase # None
                                     THEN Some(now - first_purchase[1])
                                     ELSE None]))

\* key=lambda x: x['weight_pct']
HeavierHolding(holdings) ==
    {ji \in (DOMAIN holdings) \X (DOMAIN holdings) :
        RatLess(holdings[ji[2]].weight_pct, holdings[ji[1]].weight_pct)}

\* PortfolioAnalytics.get_detailed_holdings(portfolio_name)
get_detailed_holdings(table, store, now, portfolio_name) ==
    LET stocks_with_transactions ==
            DistinctSymbols(table,
                OrderedRows(table, PortfolioRows(table, portfolio_name)), {})
        positions == get_stock_positions(table, portfolio_name)
        loop == HoldingsLoop(table, store, now, positions, stocks_with_transactions,
                             TotalPortfolioValue(store, positions), <<>>)
    IN IF loop.raised THEN [raised |-> TRUE, holdings |-> <<>>]
       ELSE [raised |-> FALSE,
             holdings |-> StableSortDescending(loop.holdings,
                                              HeavierHolding(loop.holdings))]

GetDetailedHoldings(portfolio_name) ==
    /\ response' = [op |-> "get_detailed_holdings",
                    portfolio_name |-> portfolio_name,
                    result |-> get_detailed_holdings(ledger, prices, today,
                                                     portfolio_name)]
    /\ UNCHANGED <<ledger, session, prices, today, authvars>>

\* SECTOR_MAPPING.get(symbol, 'Other'), for the symbols of the model
SectorOf(symbol) ==
    CASE symbol = "AAPL" -> "Technology"
      [] symbol = "MSFT" -> "Technology"
      [] symbol = "XOM" -> "Energy"
      [] OTHER -> "Other"

PositionValueOrZero(store, position) ==
    LET latest_price == LatestPrice(store, position.symbol)
    IN IF latest_price # None
       THEN position.quantity * latest_price[1]
       ELSE 0

\* position_value: shares * latest close, total_cost when no price is stored
PositionValue(store, position) ==
    LET latest_price == LatestPrice(store, position.symbol)
    IN IF latest_price # None
       THEN position.quantity * latest_price[1]
       ELSE position.total_cost

\* sector_values[sector] = sector_values.get(sector, 0) + position_value: a dict
\* keeps its keys in the order they were first set
AddToSector(sector_values, sector, position_value) ==
    IF \E i \in DOMAIN sector_values : sector_values[i].label = sector
    THEN [i \in DOMAIN sector_values |->
             IF sector_values[i].label = sector
             THEN [sector_values[i] EXCEPT !.value = @ + position_value]
             ELSE sector_values[i]]
    ELSE Append(sector_values, [label |-> sector, value |-> position_value])

RECURSIVE SectorValues(_, _, _)
SectorValues(store, positions, sector_values) ==
    IF positions = <<>> THEN sector_values
    ELSE SectorValues(store, Tail(positions),
             AddToSector(sector_values, SectorOf(Head(positions).symbol),
                         PositionValue(store, Head(positions))))

RECURSIVE SumOfValues(_)
SumOfValues(sector_values) ==
    IF sector_values = <<>> THEN 0
    ELSE Head(sector_values).value + SumOfValues(Tail(sector_values))

\* round(n / d, 0) for d > 0, halves to the even neighbour
RoundHalfEven(n, d) ==
    LET q == n \div d
        r == n % d
    IN IF 2 * r < d THEN q
       ELSE IF 2 * r > d THEN q + 1
       ELSE IF q % 2 = 0 THEN q ELSE q + 1

PercentOfOne(value, total_portfolio_value) ==
    RoundHalfEven(value * 10, total_portfolio_value)

\* round((value / total_portfolio_value) * 100, 1), in tenths of a percent
PercentTenths(value, total_portfolio_value) ==
    RoundHalfEven(value * 1000, total_portfolio_value)

\* key=lambda x: x[1]
LargerValue(sector_values) ==
    {ji \in (DOMAIN sector_values) \X (DOMAIN sector_values) :
        sector_values[ji[1]].value > sector_values[ji[2]].value}

NotNegative(total_portfolio_value) == total_portfolio_value >= 0

\* "if total_portfolio_value > 0:"
HasValue(total_portfolio_value) == total_portfolio_value > 0

\* "except Exception as e: # Return sample data on error"
SampleAllocation ==
    [labels |-> <<"Technology", "Healthcare", "Financials", "Consumer Staples">>,
     values |-> <<5000, 3000, 2000, 1500>>,
     percentages |-> <<435, 261, 174, 130>>,
     total_value |-> 11500]

\* sector_allocation_data over the positions of a portfolio; a float division by
\* zero raises ZeroDivisionError, which the except clause answers with the sample
sector_allocation(store, positions) ==
    IF positions = <<>>
    THEN [sectors |-> <<>>, labels |-> <<>>, values |-> <<>>]
    ELSE LET sector_values == SectorValues(store, positions, <<>>)
             total_portfolio_value == SumOfValues(sector_values)
             sorted_data == StableSortDescending(sector_values,
                                                   LargerValue(sector_values))
         IN IF HasValue(total_portfolio_value)
            THEN IF total_portfolio_value = 0
                 THEN SampleAllocation
                 ELSE
                 [labels |-> [i \in DOMAIN sorted_data |-> sorted_data[i].label],
                  values |-> [i \in DOMAIN sorted_data |-> sorted_data[i].value],
                  percentages |->
                      [i \in DOMAIN sorted_data |->
                          PercentTenths(sorted_data[i].value, total_portfolio_value)],
                  total_value |-> total_portfolio_value]
            ELSE [labels |-> <<>>, values |-> <<>>, percentages |-> <<>>,
                  total_value |-> 0]

SectorAllocationData(portfolio_name) ==
    /\ response' = [op |-> "sector_allocation_data",
                    portfolio_name |-> portfolio_name,
                    result |-> sector_allocation(prices,
                                   get_stock_positions(ledger, portfolio_name))]
    /\ UNCHANGED <<ledger, session, prices, today, authvars>>

\* alice's history of AAPL, 2 bought at 1 on day 1, then possibly 1 sold at some
\* price, followed by her history of XOM: none, or 1 bought at 1 on some day
InceptionLedgers ==
    {a \o x :
       a \in {<<BuyRow("alice", DefaultPortfolio, "AAPL", 2, 1, 1)>>}
             \cup {<<BuyRow("alice", DefaultPortfolio, "AAPL", 2, 1, 1),
                     SellRow("alice", DefaultPortfolio, "AAPL", 1, p, 2)>> : p \in 1..3},
       x \in {<<>>} \cup {<<BuyRow("alice", DefaultPortfolio, "XOM", 1, 1, d)>> : d \in Days}}

\* every row is one the transaction form accepts and saves
Storable(table) ==
    \A i \in DOMAIN table :
        /\ table[i].symbol \in Symbols
        /\ quantity_valid(table[i].quantity)
        /\ price_valid(Some(table[i].price_per_share))
        /\ saved_price(Some(table[i].price_per_share)) = table[i].price_per_share
        /\ table[i].transaction_date \in Days

InitInception ==
    /\ ledger \in InceptionLedgers
    /\ Storable(ledger)
    /\ session = [u \in Users |-> None]
    /\ SignedIn
    /\ prices \in PriceStores
    /\ today = MaxDay
    /\ response = [op |-> "none"]

NextInception ==
    \/ \E yahoo \in [Symbols -> YahooHistories] :
           PerformanceSinceInception(DefaultPortfolio, yahoo)
    \/ GetDetailedHoldings(DefaultPortfolio)

SpecInception == InitInception /\ [][NextInception]_vars

\* the sector allocation over the same ledgers and price tables
NextAllocation == SectorAllocationData(DefaultPortfolio)

\* symbols for which no price is stored: one more Technology stock, and one that
\* SECTOR_MAPPING does not name
UnpricedSymbols == {"MSFT", "SHOP"}

AllocationStores ==
    {[s \in Symbols \cup UnpricedSymbols |->
         IF s \in Symbols THEN store[s] ELSE [d \in Days |-> None]] :
       store \in PriceStores}

\* no transactions at all, or alice's histories of AAPL and XOM and possibly one
\* share of a third symbol
AllocationLedgers ==
    {<<>>}
    \cup InceptionLedgers
    \cup {l \o <<BuyRow("alice", DefaultPortfolio, s, 1, 1, 1)>> :
             l \in InceptionLedgers, s \in UnpricedSymbols}

InitAllocation ==
    /\ ledger \in AllocationLedgers
    /\ \A i \in DOMAIN ledger :
          /\ quantity_valid(ledger[i].quantity)
          /\ price_valid(Some(ledger[i].price_per_share))
    /\ session = [u \in Users |-> None]
    /\ SignedIn
    /\ prices \in AllocationStores
    /\ today = MaxDay
    /\ response = [op |-> "none"]

SpecAllocation == InitAllocation /\ [][NextAllocation]_vars

\* ---- the earnings and dividend calendars (services.py) ----

\* the years in which a request is made
Years == {2024, 2025}

IsLeap(year) == (year % 4 = 0 /\ year % 100 # 0) \/ year % 400 = 0

DaysInMonth(year, month) ==
    IF month = 2 THEN (IF IsLeap(year) THEN 29 ELSE 28)
    ELSE IF month \in {4, 6, 9, 11} THEN 30 ELSE 31

\* datetime(year, month, day) raises ValueError unless the date exists
ValidDate(year, month, day) ==
    month \in 1..12 /\ day \in 1..DaysInMonth(year, month)

\* the days of the year before the first of the month
DaysBeforeMonth(year, month) ==
    <<0, 31, 59, 90, 120, 151, 181, 212, 243, 273, 304, 334>>[month]
    + (IF month > 2 /\ IsLeap(year) THEN 1 ELSE 0)

RECURSIVE DaysBeforeYear(_)
DaysBeforeYear(year) ==
    IF year <= 2024 THEN 0
    ELSE DaysBeforeYear(year - 1) + (IF IsLeap(year - 1) THEN 366 ELSE 365)

\* a date as the number of its day, 2024-01-01 being day 1: dates are compared and
\* subtracted as day numbers
DayNumber(year, month, day) ==
    DaysBeforeYear(year) + DaysBeforeMonth(year, month) + day

\* current_date.year and current_date.month
YearOf(date) ==
    CHOOSE year \in Years :
        DayNumber(year, 1, 1) <= date /\ date < DayNumber(year + 1, 1, 1)

MonthOf(date) ==
    CHOOSE month \in 1..12 :
        /\ DayNumber(YearOf(date), month, 1) <= date
        /\ date <= DayNumber(YearOf(date), month, DaysInMonth(YearOf(date), month))

\* strftime('%m/%d/%Y')
FormatDate(year, month, day) == <<month, day, year>>

Later(date, current_date) == date > current_date

\* "if earnings_date >= current_date:", "if test_date >= current_date:"
OnOrAfter(date, current_date) == date >= current_date

\* the schedule used for a symbol EARNINGS_CALENDAR does not name
DefaultEarningsSchedule ==
    [quarters |-> <<1, 2, 3, 4>>, months |-> <<2, 4, 7, 10>>, days |-> <<15, 15, 15, 15>>]

\* EARNINGS_CALENDAR, for the symbols held in the model
EARNINGS_CALENDAR ==
    [symbol \in {"AAPL", "XOM", "O", "TSLA"} |->
        CASE symbol = "AAPL" ->
               Some([quarters |-> <<1, 2, 3, 4>>, months |-> <<1, 4, 7, 10>>,
                     days |-> <<26, 25, 25, 26>>])
          [] symbol = "O" ->
               Some([quarters |-> <<1, 2, 3, 4>>, months |-> <<2, 5, 8, 11>>,
                     days |-> <<15, 15, 15, 15>>])
          [] symbol = "TSLA" ->
               Some([quarters |-> <<1, 2, 3, 4>>, months |-> <<1, 4, 7, 10>>,
                     days |-> <<25, 24, 24, 25>>])
          [] OTHER -> None]

\* the loop over the schedule's quarters: the first date of the current year that
\* is not before current_date; a date that does not exist is tried on
\* min(day, 28)
RECURSIVE NextEarningsThisYear(_, _, _, _)
NextEarningsThisYear(schedule, i, current_year, current_date) ==
    IF i > Len(schedule.quarters) THEN None
    ELSE LET month == schedule.months[i]
             day == schedule.days[i]
             tried == IF ValidDate(current_year, month, day) THEN day
                      ELSE IF day < 28 THEN day ELSE 28
         IN IF OnOrAfter(DayNumber(current_year, month, tried), current_date)
            THEN Some([year |-> current_year, month |-> month, day |-> tried])
            ELSE NextEarningsThisYear(schedule, i + 1, current_year, current_date)

\* next_earnings_date: this year's, or the first quarter of next year
NextEarningsDate(schedule, current_date) ==
    LET current_year == YearOf(current_date)
        this_year == NextEarningsThisYear(schedule, 1, current_year, current_date)
    IN IF this_year # None THEN this_year[1]
       ELSE [year |-> current_year + 1,
             month |-> schedule.months[1],
             day |-> IF ValidDate(current_year + 1, schedule.months[1], schedule.days[1])
                     THEN schedule.days[1] ELSE 28]

\* time_until: the count and its unit
TimeUntil(days_until) ==
    IF days_until <= 7 THEN <<days_until, "day">>
    ELSE IF days_until <= 30 THEN <<days_until \div 7, "week">>
    ELSE <<days_until \div 30, "month">>

RECURSIVE EarningsLoop(_, _, _)
EarningsLoop(calendar, positions, current_date) ==
    IF positions = <<>> THEN <<>>
    ELSE LET symbol == Head(positions).symbol
             schedule == IF symbol \in DOMAIN calendar /\ calendar[symbol] # None
                         THEN calendar[symbol][1]
                         ELSE DefaultEarningsSchedule
             next_earnings_date == NextEarningsDate(schedule, current_date)
             days_until == DayNumber(next_earnings_date.year, next_earnings_date.month,
                                     next_earnings_date.day) - current_date
         IN <<[symbol |-> symbol,
               company_name |-> symbol,
               earnings_date |-> FormatDate(next_earnings_date.year,
                                            next_earnings_date.month,
                                            next_earnings_date.day),
               time_until |-> TimeUntil(days_until),
               days_until |-> days_until]>>
            \o EarningsLoop(calendar, Tail(positions), current_date)

LaterFirst(events) ==
    {ji \in (DOMAIN events) \X (DOMAIN events) :
        events[ji[1]].days_until > events[ji[2]].days_until}

\* key=lambda x: x['days_until']
Sooner(events) ==
    {ji \in (DOMAIN events) \X (DOMAIN events) :
        events[ji[1]].days_until < events[ji[2]].days_until}

\* list.sort(key=...): stable, the smaller key first
StableSortAscending(items, smaller) == StableSortDescending(items, smaller)

\* PortfolioAnalytics.get_upcoming_earnings(portfolio_name), with the calendar it
\* reads
get_upcoming_earnings(table, calendar, current_date, portfolio_name) ==
    LET positions == get_stock_positions(table, portfolio_name)
        earnings == EarningsLoop(calendar, positions, current_date)
    IN StableSortAscending(earnings, Sooner(earnings))

GetUpcomingEarnings(portfolio_name, calendar) ==
    /\ response' = [op |-> "get_upcoming_earnings",
                    portfolio_name |-> portfolio_name,
                    calendar |-> calendar,
                    events |-> get_upcoming_earnings(ledger, calendar, today,
                                                     portfolio_name)]
    /\ UNCHANGED <<ledger, session, prices, today, authvars>>

\* DIVIDEND_CALENDAR, for the symbols held in the model; yield_pct in hundredths of
\* a percent, quarterly_amount in cents
DIVIDEND_CALENDAR ==
    [symbol \in {"AAPL", "XOM", "O", "TSLA"} |->
        CASE symbol = "O" ->
               Some([type |-> "monthly", yield_pct |-> 580,
                     months |-> <<1, 2, 3, 4, 5, 6, 7, 8, 9, 10, 11, 12>>,
                     ex_date_day |-> 15, quarterly_amount |-> 25])
          [] symbol = "AAPL" ->
               Some([type |-> "quarterly", yield_pct |-> 50,
                     months |-> <<2, 5, 8, 11>>,
                     ex_date_day |-> 10, quarterly_amount |-> 24])
          [] symbol = "TSLA" ->
               Some([type |-> "none", yield_pct |-> 0, months |-> <<>>,
                     ex_date_day |-> 0, quarterly_amount |-> 0])
          [] OTHER -> None]

\* "for month_offset in range(12)": the first ex-date from the current month on
\* that exists and is not before current_date
RECURSIVE NextMonthlyDividend(_, _, _)
NextMonthlyDividend(div_info, month_offset, current_date) ==
    IF month_offset >= 12 THEN None
    ELSE LET current_year == YearOf(current_date)
             current_month == MonthOf(current_date)
             wraps == current_month + month_offset > 12
             test_month == IF wraps THEN current_month + month_offset - 12
                           ELSE current_month + month_offset
             test_year == IF wraps THEN current_year + 1 ELSE current_year
         IN IF /\ ValidDate(test_year, test_month, div_info.ex_date_day)
               /\ OnOrAfter(DayNumber(test_year, test_month, div_info.ex_date_day),
                            current_date)
            THEN Some([year |-> test_year, month |-> test_month,
                       day |-> div_info.ex_date_day])
            ELSE NextMonthlyDividend(div_info, month_offset + 1, current_date)

\* "for month in div_info['months']": a date that does not exist is passed over
RECURSIVE NextQuarterlyThisYear(_, _, _, _)
NextQuarterlyThisYear(div_info, months, current_year, current_date) ==
    IF months = <<>> THEN None
    ELSE IF /\ ValidDate(current_year, Head(months), div_info.ex_date_day)
            /\ OnOrAfter(DayNumber(current_year, Head(months), div_info.ex_date_day),
                         current_date)
         THEN Some([year |-> current_year, month |-> Head(months),
                    day |-> div_info.ex_date_day])
         ELSE NextQuarterlyThisYear(div_info, Tail(months), current_year, current_date)

\* this year's date, or the first month of next year; None when that date does not
\* exist (the position is passed over)
NextQuarterlyDividend(div_info, current_date) ==
    LET current_year == YearOf(current_date)
        this_year == NextQuarterlyThisYear(div_info, div_info.months, current_year,
                                           current_date)
    IN IF this_year # None THEN this_year
       ELSE IF ValidDate(current_year + 1, div_info.months[1], div_info.ex_date_day)
       THEN Some([year |-> current_year + 1, month |-> div_info.months[1],
                  day |-> div_info.ex_date_day])
       ELSE None

PerShareAmount(quantity, dividend_amount) == dividend_amount

\* expected_amount = quantity * Decimal(str(dividend_amount))
ExpectedAmount(quantity, dividend_amount) ==
    RatMul(RatInt(quantity), dividend_amount)

\* the dividend appended for one position, if any
DividendEntry(calendar, position, current_date) ==
    LET symbol == position.symbol
        known == symbol \in DOMAIN calendar /\ calendar[symbol] # None
    IN IF ~known \/ calendar[symbol][1].type = "none" THEN <<>>
       ELSE LET div_info == calendar[symbol][1]
                dividend_amount ==
                    IF div_info.type = "monthly" THEN Rat(div_info.quarterly_amount, 3)
                    ELSE IF div_info.type = "quarterly"
                    THEN RatInt(div_info.quarterly_amount)
                    ELSE RatInt(0)
                next_dividend_date ==
                    IF div_info.type = "monthly"
                    THEN NextMonthlyDividend(div_info, 0, current_date)
                    ELSE IF div_info.type = "quarterly"
                    THEN NextQuarterlyDividend(div_info, current_date)
                    ELSE None
            IN IF next_dividend_date # None /\ RatLess(RatInt(0), dividend_amount)
               THEN <<[symbol |-> symbol,
                       yield_pct |-> div_info.yield_pct,
                       expected_amount |-> ExpectedAmount(position.quantity,
                                                          dividend_amount),
                       dividend_per_share |-> dividend_amount,
                       ex_date |-> FormatDate(next_dividend_date[1].year,
                                              next_dividend_date[1].month,
                                              next_dividend_date[1].day),
                       days_until |-> DayNumber(next_dividend_date[1].year,
                                                next_dividend_date[1].month,
                                                next_dividend_date[1].day)
                                      - current_date,
                       frequency |-> div_info.type]>>
               ELSE <<>>

RECURSIVE DividendsLoop(_, _, _)
DividendsLoop(calendar, positions, current_date) ==
    IF positions = <<>> THEN <<>>
    ELSE DividendEntry(calendar, Head(positions), current_date)
         \o DividendsLoop(calendar, Tail(positions), current_date)

\* PortfolioAnalytics.get_upcoming_dividends(portfolio_name), with the calendar it
\* reads
get_upcoming_dividends(table, calendar, current_date, portfolio_name) ==
    LET positions == get_stock_positions(table, portfolio_name)
        dividends == DividendsLoop(calendar, positions, current_date)
    IN StableSortAscending(dividends, Sooner(dividends))

GetUpcomingDividends(portfolio_name, calendar) ==
    /\ response' = [op |-> "get_upcoming_dividends",
                    portfolio_name |-> portfolio_name,
                    calendar |-> calendar,
                    events |-> get_upcoming_dividends(ledger, calendar, today,
                                                      portfolio_name)]
    /\ UNCHANGED <<ledger, session, prices, today, authvars>>

\* the symbols alice holds when the calendars are asked for
CalendarSymbols == {"AAPL", "XOM", "O", "TSLA"}

\* schedules a calendar may hold for AAPL besides the one it has: a single date,
\* and days that do not exist in every month
EarningsCalendars ==
    {EARNINGS_CALENDAR}
    \cup {[EARNINGS_CALENDAR EXCEPT !["AAPL"] = Some(schedule)] :
            schedule \in {[quarters |-> <<1>>, months |-> <<1>>, days |-> <<15>>],
                          [quarters |-> <<1, 2, 3, 4>>, months |-> <<2, 4, 7, 10>>,
                           days |-> <<30, 31, 15, 15>>]}}

DividendCalendars ==
    {DIVIDEND_CALENDAR}
    \cup {[DIVIDEND_CALENDAR EXCEPT !["AAPL"] = Some(div_info)] :
            div_info \in
              {[type |-> "quarterly", yield_pct |-> 50, months |-> <<1>>,
                ex_date_day |-> 15, quarterly_amount |-> 24],
               [type |-> "quarterly", yield_pct |-> 50, months |-> <<2, 5, 8, 11>>,
                ex_date_day |-> 30, quarterly_amount |-> 24],
               [type |-> "quarterly", yield_pct |-> 50, months |-> <<2, 4, 6, 11>>,
                ex_date_day |-> 31, quarterly_amount |-> 24]}}

\* no transactions, or alice bought 2 shares of one symbol and possibly 1 share of
\* another, on 2024-01-01
CalendarLedgers ==
    {<<>>}
    \cup {<<BuyRow("alice", DefaultPortfolio, a, 2, 1, 1)>> : a \in CalendarSymbols}
    \cup {<<BuyRow("alice", DefaultPortfolio, ab[1], 2, 1, 1),
            BuyRow("alice", DefaultPortfolio, ab[2], 1, 1, 1)>> :
             ab \in {<<"AAPL", "O">>, <<"O", "AAPL">>, <<"AAPL", "XOM">>, <<"AAPL", "TSLA">>}}

InitCalendar ==
    /\ ledger \in CalendarLedgers
    /\ session = [u \in Users |-> None]
    /\ SignedIn
    /\ prices = NoPrices
    /\ today \in UNION {DayNumber(year, 1, 1)..DayNumber(year, 12, 31) : year \in Years}
    /\ response = [op |-> "none"]

NextCalendar ==
    \/ \E calendar \in EarningsCalendars :
          GetUpcomingEarnings(DefaultPortfolio, calendar)
    \/ \E calendar \in DividendCalendars :
          GetUpcomingDividends(DefaultPortfolio, calendar)

SpecCalendar == InitCalendar /\ [][NextCalendar]_vars

\* ---- the price providers (free_data_service.py) ----

\* the sources get_current_price asks, in the order it asks them
Providers ==
    <<"Yahoo Finance", "Twelve Data", "Alpha Vantage", "Financial Modeling Prep",
      "MarketStack">>

\* what one provider call may do: raise, return None, or return price data; a
\* price of 0 also stands for data without a 'price' key (.get('price', 0))
ProviderOutcomes ==
    {[kind |-> "raises"], [kind |-> "none"]}
    \cup {[kind |-> "data", price |-> p] : p \in 0..1}

AnyData(outcome) == outcome.kind = "data"

\* "if price_data and price_data.get('price', 0) > 0"; a raising call is caught by
\* the "except Exception" around it
YieldsPrice(outcome) == outcome.kind = "data" /\ outcome.price > 0

\* the try blocks of get_current_price from the i-th provider on
RECURSIVE TryProviders(_, _)
TryProviders(outcomes, i) ==
    IF i > Len(Providers) THEN None
    ELSE IF YieldsPrice(outcomes[i])
         THEN Some([source |-> Providers[i], price |-> outcomes[i].price])
         ELSE TryProviders(outcomes, i + 1)

\* FreeDataService.get_current_price(symbol), outcomes being what each provider
\* does when it is asked
get_current_price(outcomes) == TryProviders(outcomes, 1)

\* StockDataService.get_current_price(symbol)
GetCurrentPrice(symbol, outcomes) ==
    /\ response' = [op |-> "get_current_price", symbol |-> symbol,
                    outcomes |-> outcomes,
                    price_data |-> get_current_price(outcomes)]
    /\ UNCHANGED <<ledger, session, prices, today, authvars>>

NextProviders ==
    \E symbol \in Symbols, outcomes \in [DOMAIN Providers -> ProviderOutcomes] :
        GetCurrentPrice(symbol, outcomes)

SpecProviders == Init /\ [][NextProviders]_vars

\* ---- the dashboard (views.py) ----

\* what data_service.get_current_price(symbol) does for the view: it raises, or
\* returns None or the data of a provider
PriceAnswers ==
    {[raises |-> TRUE, price_data |-> None]}
    \cup {[raises |-> FALSE, price_data |-> data] :
             data \in {None} \cup {Some([source |-> "Yahoo Finance", price |-> p]) :
                                      p \in ClosePrices}}

\* StockPrice.objects.filter(stock__symbol=symbol).order_by('-date').first(): the
\* date of that row
LatestPriceDate(store, symbol) ==
    LET dated == {d \in Days : store[symbol][d] # None}
    IN IF dated = {} THEN None
       ELSE Some(CHOOSE d \in dated : \A e \in dated : e <= d)

\* (gain_loss / total_cost * 100) if total_cost > 0 else Decimal('0')
GainLossPct(gain_loss, total_cost) ==
    IF total_cost > 0 THEN Rat(gain_loss * 100, total_cost) ELSE RatInt(0)

\* the fields a price gives to a position
WithPrice(position, current_price, label, date) ==
    [symbol |-> position.symbol,
     quantity |-> position.quantity,
     avg_cost |-> position.avg_cost,
     total_cost |-> position.total_cost,
     current_price |-> Some(current_price),
     current_value |-> Some(position.quantity * current_price),
     gain_loss |-> Some(position.quantity * current_price - position.total_cost),
     gain_loss_pct |-> Some(GainLossPct(position.quantity * current_price
                                          - position.total_cost, position.total_cost)),
     price_source |-> [label |-> label, date |-> date]]

ZeroField == Some(0)

\* position['current_price'] = None, and so for the other three fields
Unavailable == None

\* the fields of a position that no price was found for
WithoutPrice(position, label) ==
    [symbol |-> position.symbol,
     quantity |-> position.quantity,
     avg_cost |-> position.avg_cost,
     total_cost |-> position.total_cost,
     current_price |-> Unavailable,
     current_value |-> Unavailable,
     gain_loss |-> Unavailable,
     gain_loss_pct |-> Unavailable,
     price_source |-> [label |-> label, date |-> None]]

\* the fallback of both branches: the latest stored price of the symbol, if any
FromStoredPrice(position, store, label) ==
    LET latest_price == LatestPrice(store, position.symbol)
    IN IF latest_price # None
       THEN WithPrice(position, latest_price[1], "Cached",
                      LatestPriceDate(store, position.symbol))
       ELSE WithoutPrice(position, label)

\* the loop of the dashboard over the positions: a returned price is stored as
\* the row of today (update_or_create) and used; otherwise the stored price is
\* looked up
RECURSIVE DashboardLoop(_, _, _, _, _)
DashboardLoop(positions, store, now, answers, done) ==
    IF positions = <<>> THEN [store |-> store, positions |-> done]
    ELSE LET position == Head(positions)
             answer == answers[position.symbol]
         IN IF answer.raises
            THEN DashboardLoop(Tail(positions), store, now, answers,
                     Append(done, FromStoredPrice(position, store, "Error")))
            ELSE IF answer.price_data # None
            THEN DashboardLoop(Tail(positions),
                     [store EXCEPT ![position.symbol][now] =
                                       Some(answer.price_data[1].price)],
                     now, answers,
                     Append(done, WithPrice(position, answer.price_data[1].price,
                                            answer.price_data[1].source, None)))
            ELSE DashboardLoop(Tail(positions), store, now, answers,
                     Append(done, FromStoredPrice(position, store, "No data")))

\* dashboard view (@login_required) for the portfolio named in the session of the
\* user; the holdings table and the calendars it also renders read the tables only
Dashboard(u, answers) ==
    /\ u \in authenticated
    /\ \E loop \in {DashboardLoop(get_stock_positions(ledger, CurrentPortfolio(u)),
                                  prices, today, answers, <<>>)} :
          /\ prices' = loop.store
          /\ response' = [op |-> "dashboard", user |-> u,
                          current_portfolio |-> CurrentPortfolio(u),
                          answers |-> answers,
                          summary |-> get_portfolio_summary(ledger, CurrentPortfolio(u)),
                          positions |-> loop.positions]
    /\ UNCHANGED <<ledger, session, today, authvars>>

\* the dashboard over the ledgers of the inception chart and the StockPrice tables
\* in which a row, where there is one, has a close of 1
InitDashboard ==
    /\ ledger \in InceptionLedgers
    /\ session = [u \in Users |-> None]
    /\ SignedIn
    /\ prices \in [Symbols -> [Days -> {None, Some(1)}]]
    /\ today = MaxDay
    /\ response = [op |-> "none"]

NextDashboard ==
    \E answers \in [Symbols -> PriceAnswers] : Dashboard("alice", answers)

SpecDashboard == InitDashboard /\ [][NextDashboard]_vars

\* ---- the login path (models.py, auth_backends.py, auth_views.py) ----

LockoutMinutes == 15     \* timedelta(minutes=15)
LockoutAttempts == 3     \* "[:3]", "len(recent_attempts) == 3", ">= 3"
ClearAfterMinutes == 60  \* timedelta(hours=1)

\* the accounts and what a login form submits; a password is right or wrong for
\* the account it is submitted for
Passwords == {"right", "wrong"}

\* user.check_password(password) and user.is_active, for an existing user
CheckPassword(username, password) == username \in Users /\ password = "right"

\* LoginAttempt.objects.create(username=..., success=...): timestamp is auto_now_add
RecordAttempt(table, username, success, now) ==
    Append(table, [username |-> username, success |-> success, timestamp |-> now])

AnyTime(timestamp, cutoff_time) == TRUE

\* timestamp__gte=cutoff_time
NotBefore(timestamp, cutoff_time) == timestamp >= cutoff_time

\* filter(username=username, timestamp__gte=cutoff_time).order_by('-timestamp')[:3]:
\* the rows of the window, the most recent first (rows are inserted in the order
\* of their timestamps)
RecentAttempts(table, username, now) ==
    LET cutoff_time == now - LockoutMinutes
        Recent(row) == row.username = username /\ NotBefore(row.timestamp, cutoff_time)
        rows == SelectSeq(table, Recent)
        count == IF Len(rows) < LockoutAttempts THEN Len(rows) ELSE LockoutAttempts
    IN [k \in 1..count |-> rows[Len(rows) + 1 - k]]

ThreeRecent(recent_attempts) == Len(recent_attempts) = LockoutAttempts

\* "len(recent_attempts) == 3 and all(not attempt.success for attempt in ...)"
AllFailed(recent_attempts) ==
    /\ Len(recent_attempts) = LockoutAttempts
    /\ \A k \in DOMAIN recent_attempts : ~recent_attempts[k].success

\* LoginAttempt.is_account_locked(username): (is_locked, unlock_time)
is_account_locked(table, username, now) ==
    LET recent_attempts == RecentAttempts(table, username, now)
    IN IF AllFailed(recent_attempts)
       THEN [is_locked |-> TRUE,
             unlock_time |-> Some(recent_attempts[1].timestamp + LockoutMinutes)]
       ELSE [is_locked |-> FALSE, unlock_time |-> None]

\* LoginAttempt.get_failed_attempts_count(username)
get_failed_attempts_count(table, username, now) ==
    Cardinality({i \in DOMAIN table :
                    /\ table[i].username = username
                    /\ ~table[i].success
                    /\ table[i].timestamp >= now - LockoutMinutes})

\* LoginAttempt.clear_attempts(username): the rows older than an hour are deleted
clear_attempts(table, username, now) ==
    LET Kept(row) == ~(row.username = username
                       /\ row.timestamp < now - ClearAfterMinutes)
    IN SelectSeq(table, Kept)

\* SecureModelBackend.authenticate(request, username, password): the user, if any,
\* and the table it leaves
secure_authenticate(table, username, password, now) ==
    IF is_account_locked(table, username, now).is_locked
    THEN [user |-> None, table |-> RecordAttempt(table, username, FALSE, now)]
    ELSE IF username \notin Users
    THEN [user |-> None, table |-> RecordAttempt(table, username, FALSE, now)]
    ELSE IF CheckPassword(username, password)
    THEN [user |-> Some(username),
          table |-> clear_attempts(RecordAttempt(table, username, TRUE, now),
                                   username, now)]
    ELSE [user |-> None, table |-> RecordAttempt(table, username, FALSE, now)]

\* django.contrib.auth.authenticate with the configured backend
authenticate(configured, table, username, password, now) ==
    IF configured = <<"SecureModelBackend">>
    THEN secure_authenticate(table, username, password, now)
    ELSE [user |-> IF CheckPassword(username, password) THEN Some(username) ELSE None,
          table |-> table]

\* secure_login_view, POST by a browser that is not signed in, for a username that
\* is not blank: what it answers, the table it leaves and who is signed in
secure_login(configured, table, signed_in, username, password, now) ==
    LET lock == is_account_locked(table, username, now)
    IN IF lock.is_locked /\ lock.unlock_time # None
       THEN [answer |-> [logged_in |-> FALSE, account_locked |-> TRUE,
                         unlock_time |-> lock.unlock_time,
                         failed_attempts |-> Some(LockoutAttempts)],
             table |-> RecordAttempt(table, username, FALSE, now),
             signed_in |-> signed_in]
       ELSE LET form == authenticate(configured, table, username, password, now)
            IN IF form.user # None
               THEN [answer |-> [logged_in |-> TRUE, account_locked |-> FALSE,
                                 unlock_time |-> None, failed_attempts |-> None],
                     table |-> clear_attempts(
                                   RecordAttempt(form.table, username, TRUE, now),
                                   username, now),
                     signed_in |-> signed_in \cup {form.user[1]}]
               ELSE LET recorded == RecordAttempt(form.table, username, FALSE, now)
                        failed_attempts == get_failed_attempts_count(recorded,
                                                                     username, now)
                    IN [answer |->
                           IF failed_attempts >= LockoutAttempts
                           THEN [logged_in |-> FALSE, account_locked |-> TRUE,
                                 unlock_time |-> Some(now + LockoutMinutes),
                                 failed_attempts |-> Some(failed_attempts)]
                           ELSE [logged_in |-> FALSE, account_locked |-> FALSE,
                                 unlock_time |-> None,
                                 failed_attempts |-> Some(failed_attempts)],
                        table |-> recorded,
                        signed_in |-> signed_in]

\* a login form is posted to secure_login_view, some minutes after the request
\* before it
SecureLogin(minutes, username, password) ==
    /\ Len(attempts) < MaxAttempts
    /\ clock + minutes <= MaxClock
    /\ clock' = clock + minutes
    /\ \E result \in {secure_login(backends, attempts, authenticated, username,
                                   password, clock + minutes)} :
          /\ attempts' = result.table
          /\ authenticated' = result.signed_in
          /\ response' = [op |-> "secure_login", username |-> username,
                          password |-> password, answer |-> result.answer]
    /\ UNCHANGED <<ledger, session, prices, today, backends>>

\* another caller (the admin login) asks the configured SecureModelBackend
BackendAuthenticate(minutes, username, password) ==
    /\ backends = <<"SecureModelBackend">>
    /\ Len(attempts) < MaxAttempts
    /\ clock + minutes <= MaxClock
    /\ clock' = clock + minutes
    /\ \E result \in {secure_authenticate(attempts, username, password,
                                          clock + minutes)} :
          /\ attempts' = result.table
          /\ response' = [op |-> "authenticate", username |-> username,
                          password |-> password, user |-> result.user]
    /\ UNCHANGED <<ledger, session, prices, today, authenticated, backends>>

\* the minutes that pass between two requests
Delays == {1, LockoutMinutes - 1, LockoutMinutes, ClearAfterMinutes + 1}

\* the usernames a login form submits
LoginNames == {"alice"}

InitLogin ==
    /\ ledger = <<>>
    /\ session = [u \in Users |-> None]
    /\ prices = NoPrices
    /\ today = 1
    /\ response = [op |-> "none"]
    /\ attempts = <<>>
    /\ clock = 0
    /\ authenticated = {}
    /\ backends \in {<<"ModelBackend">>, <<"SecureModelBackend">>}

NextLogin ==
    \/ \E minutes \in Delays, username \in LoginNames, password \in Passwords :
          SecureLogin(minutes, username, password)
    \/ \E minutes \in Delays, username \in LoginNames, password \in Passwords :
          BackendAuthenticate(minutes, username, password)

SpecLogin == InitLogin /\ [][NextLogin]_vars

\* ---- the current portfolio of the session (views.py, auth_views.py) ----

\* request.POST.get('portfolio_name', '').strip()
Strip(name) ==
    CASE name = "  " -> ""
      [] name = " Growth " -> "Growth"
      [] OTHER -> name

\* change_portfolio view (@login_required), POST
ChangePortfolio(u, portfolio_name) ==
    /\ u \in authenticated
    /\ LET new_portfolio_name == Strip(portfolio_name)
       IN IF new_portfolio_name = ""
          THEN /\ session' = session
               /\ response' = [op |-> "change_portfolio", user |-> u, changed |-> FALSE,
                               portfolio_name |-> new_portfolio_name]
          ELSE /\ session' = [session EXCEPT ![u] = Some(new_portfolio_name)]
               /\ response' = [op |-> "change_portfolio", user |-> u, changed |-> TRUE,
                               portfolio_name |-> new_portfolio_name]
    /\ UNCHANGED <<ledger, prices, today, authvars>>

\* change_user_view, goodbye_view and the logout URL: logout(request) flushes the
\* session of the browser
Logout(u) ==
    /\ u \in authenticated
    /\ session' = [session EXCEPT ![u] = None]
    /\ authenticated' = authenticated \ {u}
    /\ response' = [op |-> "logout", user |-> u]
    /\ UNCHANGED <<ledger, prices, today, attempts, clock, backends>>

InitSession ==
    /\ ledger = <<>>
    /\ session = [u \in Users |-> None]
    /\ SignedIn
    /\ prices = NoPrices
    /\ today = 1
    /\ response = [op |-> "none"]

\* users select portfolios, open the dashboard, sign out and sign in again
NextSession ==
    \/ \E u \in Users,
          portfolio_name \in {"", "  ", "Growth", " Growth ", DefaultPortfolio} :
          ChangePortfolio(u, portfolio_name)
    \/ \E u \in Users :
          Dashboard(u, [s \in Symbols |-> [raises |-> FALSE, price_data |-> None]])
    \/ \E u \in Users : Logout(u)
    \/ \E u \in Users : u \notin authenticated /\ SecureLogin(1, u, "right")

SpecSession == InitSession /\ [][NextSession]_vars

\* ---- claims on the ledger and the positions ----

AllButLast(table) == SubSeq(table, 1, Len(table) - 1)

\* the quantities of a symbol's rows of one type in a portfolio, summed row by row
RECURSIVE LedgerQuantity(_, _, _, _)
LedgerQuantity(table, portfolio_name, symbol, transaction_type) ==
    IF table = <<>> THEN 0
    ELSE LET row == Head(table)
             rest == LedgerQuantity(Tail(table), portfolio_name, symbol, transaction_type)
         IN IF /\ row.portfolio_name = portfolio_name
               /\ row.symbol = symbol
               /\ row.transaction_type = transaction_type
            THEN row.quantity + rest
            ELSE rest

LedgerNet(table, portfolio_name, symbol) ==
    LedgerQuantity(table, portfolio_name, symbol, "BUY")
    - LedgerQuantity(table, portfolio_name, symbol, "SELL")

PositionsOfSymbol(positions, symbol) ==
    {i \in DOMAIN positions : positions[i].symbol = symbol}

\* the latest row is a SELL of part of what a run of BUYs of that symbol holds
PartialSellAfterBuys(table, portfolio_name) ==
    /\ table # <<>>
    /\ LET last == table[Len(table)]
       IN /\ last.portfolio_name = portfolio_name
          /\ last.transaction_type = "SELL"
          /\ LedgerQuantity(AllButLast(table), portfolio_name, last.symbol, "SELL") = 0
          /\ \A i \in DOMAIN table : table[i].price_per_share > 0
          /\ last.quantity < LedgerNet(AllButLast(table), portfolio_name, last.symbol)

\* C1: after BUYs and then a SELL of q < held of a symbol, the position's total_cost
\* is the total_cost before the sell reduced by q / held of it, and avg_cost is
\* what it was before the sell, whatever the sale price.
C1_AvgCostIsDisposalInvariant ==
    (/\ response.op = "get_stock_positions"
     /\ PartialSellAfterBuys(ledger, response.portfolio_name))
    => LET pn == response.portfolio_name
           last == ledger[Len(ledger)]
           held == LedgerNet(AllButLast(ledger), pn, last.symbol)
           before == get_stock_positions(AllButLast(ledger), pn)
       IN \A i \in PositionsOfSymbol(response.positions, last.symbol) :
          \A j \in PositionsOfSymbol(before, last.symbol) :
             /\ response.positions[i].total_cost * held
                    = before[j].total_cost * (held - last.quantity)
             /\ response.positions[i].avg_cost = before[j].avg_cost

\* C2: a transaction appended by another user, even under the same portfolio_name,
\* changes neither the positions nor the summary computed for a user.
C2_OtherUsersRowsChangeNothing ==
    (/\ response.op \in {"get_stock_positions", "get_portfolio_summary"}
     /\ ledger # <<>>
     /\ ledger[Len(ledger)].user # response.user)
    => /\ response.op = "get_stock_positions"
            => response.positions
                 = get_stock_positions(AllButLast(ledger), response.portfolio_name)
       /\ response.op = "get_portfolio_summary"
            => response.summary
                 = get_portfolio_summary(AllButLast(ledger), response.portfolio_name)

\* C3: every position returned has quantity = the symbol's BUY quantities minus its
\* SELL quantities in that portfolio.
C3_QuantityIsBuysMinusSells ==
    response.op = "get_stock_positions"
    => \A i \in DOMAIN response.positions :
          response.positions[i].quantity
            = LedgerNet(ledger, response.portfolio_name, response.positions[i].symbol)

C3_Witness ==
    /\ response.op = "get_stock_positions"
    /\ \E i \in DOMAIN response.positions :
          /\ LedgerQuantity(ledger, response.portfolio_name,
                            response.positions[i].symbol, "SELL") > 0
          /\ response.positions[i].quantity > 0

\* C4: the positions returned contain a symbol exactly when its net quantity is > 0;
\* a symbol bought and sold in equal quantity, or oversold, is absent.
C4_ListedIffNetPositive ==
    response.op = "get_stock_positions"
    => \A symbol \in Symbols :
          (PositionsOfSymbol(response.positions, symbol) # {})
            <=> (LedgerNet(ledger, response.portfolio_name, symbol) > 0)

C4_Witness ==
    /\ response.op = "get_stock_positions"
    /\ \E symbol \in Symbols :
          /\ LedgerQuantity(ledger, response.portfolio_name, symbol, "BUY") > 0
          /\ LedgerNet(ledger, response.portfolio_name, symbol) = 0
          /\ PositionsOfSymbol(response.positions, symbol) = {}

\* C6: every recorded transaction has quantity > 0 and price_per_share > 0.
C6_RecordedQuantityAndPricePositive ==
    \A i \in DOMAIN ledger :
        /\ ledger[i].quantity > 0
        /\ ledger[i].price_per_share > 0

\* ---- claims on the aligned price series ----

ObservedDates(store, symbol, start_date, end_date) ==
    {d \in Days : d >= start_date /\ d <= end_date /\ store[symbol][d] # None}

IsAscending(seq) == \A j, k \in DOMAIN seq : j < k => seq[j] < seq[k]

\* the symbol's most recent observation in the range at or before date, if any
MostRecentObservation(store, symbol, start_date, date) ==
    LET seen == ObservedDates(store, symbol, start_date, date)
    IN IF seen = {} THEN None
       ELSE store[symbol][CHOOSE d \in seen : \A e \in seen : e <= d]

\* C7: in the aligned datasets the timeline is the sorted union of the observed
\* dates, and each symbol's value at each date is its most recent observed price at
\* or before that date, None (not 0) when it has no observation by then.
C7_CarryForwardAlignment ==
    (response.op = "historical_stock_prices" /\ ~response.chart.sample)
    => LET chart == response.chart
           held == {chart.datasets[i].label : i \in DOMAIN chart.datasets}
       IN /\ IsAscending(chart.dates)
          /\ SeqToSet(chart.dates)
               = UNION {ObservedDates(prices, symbol, response.start_date,
                                      response.end_date) : symbol \in held}
          /\ \A i \in DOMAIN chart.datasets :
                /\ DOMAIN chart.datasets[i].data = DOMAIN chart.dates
                /\ \A k \in DOMAIN chart.dates :
                      chart.datasets[i].data[k]
                        = MostRecentObservation(prices, chart.datasets[i].label,
                                                response.start_date, chart.dates[k])

\* one symbol carried forward over a date it has no row for, the other still None
\* at the first date
C7_Witness ==
    /\ response.op = "historical_stock_prices"
    /\ ~response.chart.sample
    /\ Len(response.chart.dates) = 2
    /\ \E i, j \in DOMAIN response.chart.datasets :
          /\ response.chart.datasets[i].data = <<Some(1), Some(1)>>
          /\ prices[response.chart.datasets[i].label][response.chart.dates[2]] = None
          /\ response.chart.datasets[j].data = <<None, Some(2)>>

\* ---- claims on the performance percentages ----

\* the dates from the symbol's first purchase in the portfolio up to date on which
\* a price of it is stored
ObservedSincePurchase(table, store, portfolio_name, symbol, date) ==
    LET first_purchase == FirstPurchase(table, portfolio_name, symbol)
    IN IF first_purchase = None THEN {}
       ELSE ObservedDates(store, symbol, first_purchase[1], date)

DatasetsOf(chart, symbol) ==
    {i \in DOMAIN chart.datasets : chart.datasets[i].label = symbol}

\* C5: for a position whose avg_cost is 0 and that has a stored price, the
\* performance-since-inception request does not fail on a division and the symbol's
\* series is 0 throughout, and get_detailed_holdings does not fail and reports
\* performance_pct 0 for the symbol.
C5_ZeroBasisYieldsZero ==
    LET positions == get_stock_positions(ledger, DefaultPortfolio)
        zero_basis == {i \in DOMAIN positions : positions[i].avg_cost.num = 0}
    IN /\ response.op = "performance_since_inception"
            => \A i \in zero_basis :
                  ObservedSincePurchase(ledger, prices, response.portfolio_name,
                                        positions[i].symbol, MaxDay) # {}
                  => /\ ~response.chart.raised
                     /\ \E j \in DatasetsOf(response.chart, positions[i].symbol) :
                           \A k \in DOMAIN response.chart.dates :
                              response.chart.datasets[j].data[k] = Some(RatInt(0))
       /\ response.op = "get_detailed_holdings"
            => \A i \in zero_basis :
                  LatestPrice(prices, positions[i].symbol) # None
                  => /\ ~response.result.raised
                     /\ \E j \in DOMAIN response.result.holdings :
                           /\ response.result.holdings[j].symbol = positions[i].symbol
                           /\ response.result.holdings[j].performance_pct
                                = Some(RatInt(0))

\* the (dataset, date) pairs of the inception chart at which the symbol has no
\* observation yet
BeforeFirstObservation ==
    {<<i, k>> \in (DOMAIN response.chart.datasets) \X (DOMAIN response.chart.dates) :
        ObservedSincePurchase(ledger, prices, response.portfolio_name,
                              response.chart.datasets[i].label,
                              response.chart.dates[k]) = {}}

\* C8: in a symbol's performance-since-inception series the dates of the timeline
\* before the symbol's first observation carry no value (None); they are not
\* zero-filled.
C8_LeftOutBeforeFirstObservation ==
    (response.op = "performance_since_inception" /\ ~response.chart.sample)
    => \A ik \in BeforeFirstObservation :
          response.chart.datasets[ik[1]].data[ik[2]] = None

\* C8 as amended: in a symbol's performance-since-inception series the dates of the
\* timeline before the symbol's first observation carry the value 0.
C8_ZeroBeforeFirstObservation ==
    (response.op = "performance_since_inception" /\ ~response.chart.sample)
    => /\ \A i \in DOMAIN response.chart.datasets :
             DOMAIN response.chart.datasets[i].data = DOMAIN response.chart.dates
       /\ \A ik \in BeforeFirstObservation :
             response.chart.datasets[ik[1]].data[ik[2]] = Some(RatInt(0))

\* a symbol with 0 at a date before its first observation and a performance other
\* than 0 from then on
C8_Witness ==
    /\ response.op = "performance_since_inception"
    /\ ~response.chart.sample
    /\ \E ik \in BeforeFirstObservation :
          /\ response.chart.datasets[ik[1]].data[ik[2]] = Some(RatInt(0))
          /\ \E k \in DOMAIN response.chart.dates :
                /\ k > ik[2]
                /\ response.chart.datasets[ik[1]].data[k] # Some(RatInt(0))

\* the positions that have an observation at or before date
HeldWithData(positions, portfolio_name, date) ==
    {i \in DOMAIN positions :
        ObservedSincePurchase(ledger, prices, portfolio_name,
                              positions[i].symbol, date) # {}}

\* percent_i(d): the position's performance at its most recent observation
PercentAt(position, portfolio_name, date) ==
    PerformancePct(
        MostRecentObservation(prices, position.symbol,
            FirstPurchase(ledger, portfolio_name, position.symbol)[1], date)[1],
        position.avg_cost)

RECURSIVE SumOfWeights(_, _)
SumOfWeights(positions, I) ==
    IF I = {} THEN 0
    ELSE LET i == CHOOSE j \in I : TRUE
         IN positions[i].total_cost + SumOfWeights(positions, I \ {i})

RECURSIVE SumOfWeightedPercents(_, _, _, _)
SumOfWeightedPercents(positions, I, portfolio_name, date) ==
    IF I = {} THEN RatInt(0)
    ELSE LET i == CHOOSE j \in I : TRUE
         IN RatAdd(RatMul(RatInt(positions[i].total_cost),
                          PercentAt(positions[i], portfolio_name, date)),
                   SumOfWeightedPercents(positions, I \ {i}, portfolio_name, date))

\* C9: at every date d of the timeline the portfolio average times the sum of the
\* weights (total_cost) of the symbols that have data at or before d is the sum of
\* weight * percent(d) over those symbols, and the average is 0 when no symbol has
\* data at d.
C9_WeightedPortfolioAverage ==
    (response.op = "performance_since_inception" /\ ~response.chart.sample)
    => LET pn == response.portfolio_name
           positions == get_stock_positions(ledger, pn)
       IN /\ DOMAIN response.chart.portfolio_average = DOMAIN response.chart.dates
          /\ \A k \in DOMAIN response.chart.dates :
                LET held == HeldWithData(positions, pn, response.chart.dates[k])
                    average == response.chart.portfolio_average[k]
                IN IF held = {}
                   THEN average = RatInt(0)
                   ELSE RatMul(average, RatInt(SumOfWeights(positions, held)))
                          = SumOfWeightedPercents(positions, held, pn,
                                                  response.chart.dates[k])

\* ---- claims on the sector allocation ----

\* the sector labels in ascending (alphabetical) order
LabelsAscending == <<"Energy", "Other", "Technology">>

LabelBefore(a, b) ==
    \E i, j \in DOMAIN LabelsAscending :
        /\ LabelsAscending[i] = a
        /\ LabelsAscending[j] = b
        /\ i < j

\* C10: the allocation lists the sectors by descending value, and two sectors of
\* equal value in ascending order of their labels, whatever the order in which
\* the positions were processed.
C10_DescendingThenByLabel ==
    response.op = "sector_allocation_data"
    => LET labels == response.result.labels
           values == response.result.values
       IN /\ DOMAIN labels = DOMAIN values
          /\ \A j, k \in DOMAIN values :
                j < k => \/ values[j] > values[k]
                         \/ /\ values[j] = values[k]
                            /\ LabelBefore(labels[j], labels[k])

RECURSIVE SumOfSeq(_)
SumOfSeq(seq) == IF seq = <<>> THEN 0 ELSE Head(seq) + SumOfSeq(Tail(seq))

\* C11: in every non-empty allocation result the percentages sum to 100 within the
\* rounding tolerance: each is rounded to a tenth, so the sum is off by at most
\* half a tenth per sector.
C11_PercentagesSumToHundred ==
    (response.op = "sector_allocation_data" /\ response.result.labels # <<>>)
    => /\ Len(response.result.percentages) = Len(response.result.labels)
       /\ 2 * Abs(SumOfSeq(response.result.percentages) - 1000)
            <= Len(response.result.percentages)

\* three sectors of a third each: the rounded percentages sum to 99.9
C11_Witness ==
    /\ response.op = "sector_allocation_data"
    /\ Len(response.result.labels) = 3
    /\ SumOfSeq(response.result.percentages) # 1000

\* the market value the claim gives a position: quantity * the close of the latest
\* date that has one, total_cost when no date has one
MarketValue(store, position) ==
    LET dated == {d \in Days : store[position.symbol][d] # None}
    IN IF dated = {} THEN position.total_cost
       ELSE position.quantity
              * store[position.symbol][CHOOSE d \in dated : \A e \in dated : e <= d][1]

RECURSIVE SumOfMarketValues(_, _, _)
SumOfMarketValues(store, positions, I) ==
    IF I = {} THEN 0
    ELSE LET i == CHOOSE j \in I : TRUE
         IN MarketValue(store, positions[i])
            + SumOfMarketValues(store, positions, I \ {i})

PositionsOfSector(positions, sector) ==
    {i \in DOMAIN positions : SectorOf(positions[i].symbol) = sector}

\* C12: in a non-empty allocation result every sector that holds a position is
\* listed once, with the sum over its positions of quantity * latest price, or of
\* total_cost for a position whose symbol has no price.
C12_SectorValueIsSumOfMarketValues ==
    (response.op = "sector_allocation_data" /\ response.result.labels # <<>>)
    => LET positions == get_stock_positions(ledger, response.portfolio_name)
           labels == response.result.labels
       IN /\ SeqToSet(labels) = {SectorOf(positions[i].symbol) : i \in DOMAIN positions}
          /\ Cardinality(SeqToSet(labels)) = Len(labels)
          /\ \A k \in DOMAIN labels :
                response.result.values[k]
                  = SumOfMarketValues(prices, positions,
                                      PositionsOfSector(positions, labels[k]))

\* Technology holds AAPL, which has a price, and MSFT, which has none and counts
\* with its total_cost
C12_Witness ==
    /\ response.op = "sector_allocation_data"
    /\ LET positions == get_stock_positions(ledger, response.portfolio_name)
       IN \E k \in DOMAIN response.result.labels :
             /\ response.result.labels[k] = "Technology"
             /\ Cardinality(PositionsOfSector(positions, "Technology")) = 2
             /\ LatestPrice(prices, "AAPL") # None
             /\ LatestPrice(prices, "MSFT") = None
             /\ response.result.values[k] > 1

\* C13: when the market values of all positions sum to 0 the allocation result has
\* no sectors, no values and no percentages.
C13_ZeroTotalGivesEmptyResult ==
    LET positions == get_stock_positions(ledger, DefaultPortfolio)
    IN (/\ response.op = "sector_allocation_data"
        /\ SumOfMarketValues(prices, positions, DOMAIN positions) = 0)
       => /\ response.result.labels = <<>>
          /\ response.result.values = <<>>
          /\ "percentages" \in DOMAIN response.result
                => response.result.percentages = <<>>

\* a held position whose value is 0
C13_Witness ==
    LET positions == get_stock_positions(ledger, DefaultPortfolio)
    IN /\ response.op = "sector_allocation_data"
       /\ positions # <<>>
       /\ SumOfMarketValues(prices, positions, DOMAIN positions) = 0
       /\ response.result.labels = <<>>
       /\ response.result.total_value = 0

\* ---- claims on the calendar projections ----

\* the (month, day) pairs of the schedule a request used for a symbol; none for a
\* symbol that pays no dividend
PairsOf(op, calendar, symbol) ==
    LET known == symbol \in DOMAIN calendar /\ calendar[symbol] # None
    IN IF op = "get_upcoming_earnings"
       THEN LET schedule == IF known THEN calendar[symbol][1]
                            ELSE DefaultEarningsSchedule
            IN [i \in DOMAIN schedule.months |-> <<schedule.months[i], schedule.days[i]>>]
       ELSE IF known /\ calendar[symbol][1].type # "none"
       THEN [i \in DOMAIN calendar[symbol][1].months |->
                <<calendar[symbol][1].months[i], calendar[symbol][1].ex_date_day>>]
       ELSE <<>>

\* every date the projection may need exists: the pairs in the year, and the first
\* pair a year later
AllDatesExist(pairs, year) ==
    /\ \A i \in DOMAIN pairs : ValidDate(year, pairs[i][1], pairs[i][2])
    /\ ValidDate(year + 1, pairs[1][1], pairs[1][2])

\* the day of the pair in the year, clamped to the last day of the month
ClampedDay(year, pair) ==
    IF pair[2] > DaysInMonth(year, pair[1]) THEN DaysInMonth(year, pair[1]) ELSE pair[2]

\* next_occurrence: the first pair whose (clamped) date in the reference year is
\* not before the reference date, else the first pair a year later
NextOccurrence(pairs, reference_date) ==
    LET year == YearOf(reference_date)
        ahead == {i \in DOMAIN pairs :
                     DayNumber(year, pairs[i][1], ClampedDay(year, pairs[i]))
                       >= reference_date}
    IN IF ahead # {}
       THEN LET i == CHOOSE j \in ahead : \A k \in ahead : j <= k
            IN <<pairs[i][1], ClampedDay(year, pairs[i]), year>>
       ELSE <<pairs[1][1], ClampedDay(year + 1, pairs[1]), year + 1>>

EventDate(event) ==
    IF "earnings_date" \in DOMAIN event THEN event.earnings_date ELSE event.ex_date

\* the day number of a formatted date
DateNumber(formatted) == DayNumber(formatted[3], formatted[1], formatted[2])

IsCalendarResponse ==
    response.op \in {"get_upcoming_earnings", "get_upcoming_dividends"}

\* the held symbols projected on a quarterly schedule by the request
ProjectedQuarterly ==
    {symbol \in CalendarSymbols :
        /\ LedgerNet(ledger, response.portfolio_name, symbol) > 0
        /\ PairsOf(response.op, response.calendar, symbol) # <<>>
        /\ response.op = "get_upcoming_dividends"
              => response.calendar[symbol][1].type = "quarterly"}

EventsOf(symbol) ==
    {i \in DOMAIN response.events : response.events[i].symbol = symbol}

\* C14: for a held symbol whose schedule names existing dates, the earnings date and
\* the quarterly dividend date projected are the first schedule date of the
\* reference year that is not before the reference date, else the first schedule
\* date of the next year; the date is never before the reference date.
C14_NextOccurrence ==
    IsCalendarResponse
    => \A symbol \in ProjectedQuarterly :
          LET pairs == PairsOf(response.op, response.calendar, symbol)
          IN AllDatesExist(pairs, YearOf(today))
             => /\ EventsOf(symbol) # {}
                /\ \A i \in EventsOf(symbol) :
                      /\ EventDate(response.events[i]) = NextOccurrence(pairs, today)
                      /\ DateNumber(EventDate(response.events[i])) >= today
                      /\ response.events[i].days_until
                           = DateNumber(EventDate(response.events[i])) - today

\* the reference date 2024-12-20 and a schedule of (1, 15) alone: 2025-01-15
C14_Witness ==
    /\ response.op = "get_upcoming_earnings"
    /\ today = DayNumber(2024, 12, 20)
    /\ PairsOf(response.op, response.calendar, "AAPL") = <<(<<1, 15>>)>>
    /\ \E i \in EventsOf("AAPL") : response.events[i].earnings_date = <<1, 15, 2025>>

C16_DividendOnlyForPayers ==
    response.op = "get_upcoming_dividends"
    => \A i \in DOMAIN response.events :
          LET event == response.events[i]
              held == LedgerNet(ledger, response.portfolio_name, event.symbol)
          IN /\ held > 0
             /\ event.symbol \in DOMAIN response.calendar
             /\ response.calendar[event.symbol] # None
             /\ LET div_info == response.calendar[event.symbol][1]
                IN /\ div_info.type # "none"
                   /\ event.frequency = div_info.type
                   /\ event.dividend_per_share
                        = IF div_info.type = "monthly"
                          THEN Rat(div_info.quarterly_amount, 3)
                          ELSE RatInt(div_info.quarterly_amount)
                   /\ event.expected_amount
                        = RatMul(RatInt(held), event.dividend_per_share)

\* 2 shares of AAPL give twice the per-share amount; TSLA, of type "none", is held
\* and absent
C16_Witness ==
    /\ response.op = "get_upcoming_dividends"
    /\ LedgerNet(ledger, response.portfolio_name, "TSLA") > 0
    /\ EventsOf("TSLA") = {}
    /\ \E i \in EventsOf("AAPL") :
          /\ LedgerNet(ledger, response.portfolio_name, "AAPL") = 2
          /\ response.events[i].expected_amount = RatInt(48)

\* C17: the earnings list and the dividends list are in ascending order of the
\* event date.
C17_EventsSortedByDate ==
    IsCalendarResponse
    => \A j, k \in DOMAIN response.events :
          j < k => DateNumber(EventDate(response.events[j]))
                     <= DateNumber(EventDate(response.events[k]))

\* two events, the later one being for the position that was processed first
C17_Witness ==
    /\ IsCalendarResponse
    /\ Len(response.events) = 2
    /\ LET positions == get_stock_positions(ledger, response.portfolio_name)
       IN /\ Len(positions) = 2
          /\ response.events[2].symbol = positions[1].symbol
          /\ DateNumber(EventDate(response.events[1]))
               < DateNumber(EventDate(response.events[2]))

\* ---- claims on the computations as a whole ----

\* C18: computing positions, series, allocation or projections creates, updates
\* and deletes no transaction and no price record: every step of a computation
\* leaves the ledger and the price table as they were.
C18_ComputationsChangeNoRecord ==
    [][ledger' = ledger /\ prices' = prices]_vars

\* C19: two invocations of the historical chart computation, one after the other
\* with the same arguments on the same ledger and the same price table, return the
\* same chart, also when the range holds no price.
C19_SameSnapshotSameChart ==
    [][(/\ response.op = "historical_stock_prices"
        /\ response'.op = "historical_stock_prices"
        /\ response'.portfolio_name = response.portfolio_name
        /\ response'.start_date = response.start_date
        /\ response'.end_date = response.end_date
        /\ response'.period = response.period
        /\ ledger' = ledger
        /\ prices' = prices)
       => response'.chart = response.chart]_vars

\* C20: when no held symbol has a price in the requested range, the historical
\* chart has no dates and no values.
C20_EmptyUnionGivesNoDates ==
    LET positions == get_stock_positions(ledger, DefaultPortfolio)
    IN (/\ response.op = "historical_stock_prices"
        /\ \A i \in DOMAIN positions :
              ObservedDates(prices, positions[i].symbol, response.start_date,
                            response.end_date) = {})
       => /\ response.chart.dates = <<>>
          /\ \A i \in DOMAIN response.chart.datasets :
                response.chart.datasets[i].data = <<>>

\* the distinct dates in the range at which a held symbol has a price row
UnionDates(store, positions, start_date, end_date) ==
    UNION {ObservedDates(store, positions[i].symbol, start_date, end_date) :
              i \in DOMAIN positions}

\* C21: the historical chart has as many labels as there are distinct dates in the
\* union of the held symbols' price dates, and every dataset's value sequence has
\* exactly that length.
C21_LengthIsNumberOfUnionDates ==
    response.op = "historical_stock_prices"
    => LET union == UnionDates(prices,
                               get_stock_positions(ledger, response.portfolio_name),
                               response.start_date, response.end_date)
       IN /\ Len(response.chart.dates) = Cardinality(union)
          /\ \A i \in DOMAIN response.chart.datasets :
                Len(response.chart.datasets[i].data) = Cardinality(union)

\* ---- claims on the price providers ----

\* the providers, in the order they are asked, that yield a price above 0
Yielding(outcomes) ==
    {i \in DOMAIN outcomes : outcomes[i].kind = "data" /\ outcomes[i].price > 0}

\* C30: get_current_price returns the data of the first provider, in the order
\* Yahoo Finance, Twelve Data, Alpha Vantage, Financial Modeling Prep, MarketStack,
\* that yields a price above 0; providers that raise or yield no such price are
\* passed over; it returns None when all five fail, and it returns in every case.
C30_FirstProviderWithPrice ==
    response.op = "get_current_price"
    => LET yielding == Yielding(response.outcomes)
       IN /\ Providers = <<"Yahoo Finance", "Twelve Data", "Alpha Vantage",
                           "Financial Modeling Prep", "MarketStack">>
          /\ yielding = {} => response.price_data = None
          /\ yielding # {}
               => LET first == CHOOSE i \in yielding : \A j \in yielding : i <= j
                  IN response.price_data
                       = Some([source |-> Providers[first],
                               price |-> response.outcomes[first].price])

\* the first source raised, the second returned a price of 0, the third a price
C30_Witness ==
    /\ response.op = "get_current_price"
    /\ response.outcomes[1].kind = "raises"
    /\ response.outcomes[2] = [kind |-> "data", price |-> 0]
    /\ response.outcomes[3] = [kind |-> "data", price |-> 1]
    /\ response.price_data = Some([source |-> "Alpha Vantage", price |-> 1])

\* ---- claims on the dashboard ----

\* the ledger without the rows of a symbol
WithoutSymbol(table, symbol) ==
    LET Other(row) == row.symbol # symbol
    IN SelectSeq(table, Other)

\* positions without the entry at index i
WithoutEntry(positions, i) ==
    [k \in 1..(Len(positions) - 1) |-> IF k < i THEN positions[k] ELSE positions[k + 1]]

\* C22: a held symbol for which the provider gives no price (None, or an error)
\* and for which no price is stored gets current_price, current_value, gain_loss
\* and gain_loss_pct None, and the dashboard's values for the other symbols are
\* those it computes on the ledger without that symbol.
C22_MissingPriceIsolated ==
    [][response'.op = "dashboard"
       => \A i \in DOMAIN response'.positions :
             LET entry == response'.positions[i]
                 answer == response'.answers[entry.symbol]
             IN (/\ answer.raises \/ answer.price_data = None
                 /\ \A d \in Days : prices[entry.symbol][d] = None)
                => /\ entry.current_price = None
                   /\ entry.current_value = None
                   /\ entry.gain_loss = None
                   /\ entry.gain_loss_pct = None
                   /\ WithoutEntry(response'.positions, i)
                        = DashboardLoop(
                              get_stock_positions(WithoutSymbol(ledger, entry.symbol),
                                                  response'.current_portfolio),
                              prices, today, response'.answers, <<>>).positions]_vars

\* two symbols held: one has no price from the provider and none stored, the
\* other one is priced
C22_Witness ==
    /\ response.op = "dashboard"
    /\ Len(response.positions) = 2
    /\ \E i, j \in DOMAIN response.positions :
          /\ response.answers[response.positions[i].symbol].price_data = None
          /\ response.positions[i].current_price = None
          /\ response.positions[i].price_source.label \in {"No data", "Error"}
          /\ response.positions[j].current_price # None

\* ---- claims on the empty ledger and the session ----

\* the rows a user recorded under a portfolio name
RowsOfUser(table, u, portfolio_name) ==
    {i \in DOMAIN table : table[i].user = u /\ table[i].portfolio_name = portfolio_name}

\* C23: for a user and a portfolio name under which that user has recorded no
\* transaction, the positions are empty and the summary counts no company and no
\* transaction.
C23_EmptyLedgerGivesEmptyOutputs ==
    (/\ response.op \in {"get_stock_positions", "get_portfolio_summary"}
     /\ RowsOfUser(ledger, response.user, response.portfolio_name) = {})
    => /\ response.op = "get_stock_positions" => response.positions = <<>>
       /\ response.op = "get_portfolio_summary"
            => /\ response.summary.companies_count = 0
               /\ response.summary.total_transactions = 0

\* ---- claims on the login path ----

\* the rows of a username that are not older than the lockout window
InLockoutWindow(table, username, now) ==
    {i \in DOMAIN table :
        table[i].username = username /\ table[i].timestamp + LockoutMinutes >= now}

\* the three most recent attempts of the window exist and all failed
LastThreeFailed(table, username, now) ==
    LET window == InLockoutWindow(table, username, now)
    IN /\ Cardinality(window) >= 3
       /\ \A i \in window :
             Cardinality({j \in window : j > i}) < 3 => ~table[i].success

\* the timestamp of the most recent attempt of a username (there is one)
MostRecentAttempt(table, username) ==
    LET mine == {i \in DOMAIN table : table[i].username = username}
    IN table[CHOOSE i \in mine : \A j \in mine : j <= i].timestamp

C26_SuccessClearsFailures ==
    (response.op = "secure_login" /\ response.answer.logged_in)
    => get_failed_attempts_count(attempts, response.username, clock) = 0

\* C27: when the login view answers that the account is locked,
\* is_account_locked is true of the username in the state it leaves.
C27_ViewAndModelAgreeOnLock ==
    (response.op = "secure_login" /\ response.answer.account_locked)
    => is_account_locked(attempts, response.username, clock).is_locked

\* C28: a login made 15 minutes or more after the most recent attempt of the
\* username finds the account unlocked and succeeds with the right password; the
\* unlock time reported for a locked account is the timestamp of its most recent
\* attempt plus 15 minutes.
C28_UnlocksAfterLockoutMinutes ==
    [][(/\ response'.op = "secure_login"
        /\ \E i \in DOMAIN attempts : attempts[i].username = response'.username)
       => LET username == response'.username
              lock == is_account_locked(attempts, username, clock')
              most_recent == MostRecentAttempt(attempts, username)
          IN /\ most_recent + LockoutMinutes <= clock'
                => /\ ~lock.is_locked
                   /\ CheckPassword(username, response'.password)
                        => /\ response'.answer.logged_in
                           /\ username \in authenticated'
             /\ lock.is_locked
                => response'.answer.unlock_time = Some(most_recent + LockoutMinutes)]_vars

\* three failures had locked the account; 15 minutes after the last of them the
\* login succeeded
C28_Witness ==
    /\ response.op = "secure_login"
    /\ response.answer.logged_in
    /\ \E i \in DOMAIN attempts :
          /\ i + 3 \in DOMAIN attempts
          /\ \A k \in 0..2 : ~attempts[i + k].success
          /\ attempts[i + 2].timestamp - attempts[i].timestamp < LockoutMinutes
          /\ attempts[i + 3].success
          /\ attempts[i + 3].timestamp = attempts[i + 2].timestamp + LockoutMinutes

\* C29: once the login view has answered that the account is locked, every
\* further attempt for the username made less than 15 minutes after the attempt
\* before it is refused as locked, whatever the password.
C29_AttemptsKeepAccountLocked ==
    [][(/\ response.op = "secure_login"
        /\ response.answer.account_locked
        /\ response'.op = "secure_login"
        /\ response'.username = response.username
        /\ clock' - clock < LockoutMinutes)
       => /\ ~response'.answer.logged_in
          /\ response'.answer.account_locked]_vars

\* C24: the current portfolio of a user, 'My Investment Portfolio' at first,
\* changes only when that user selects a name, and then to that name: it is the
\* last name the user set, whatever the other users do.
C24_CurrentPortfolioIsLastSelection ==
    [][\A u \in Users :
          CurrentPortfolio(u)' # CurrentPortfolio(u)
          => /\ response'.op = "change_portfolio"
             /\ response'.user = u
             /\ CurrentPortfolio(u)' = response'.portfolio_name]_vars

====
